---- MODULE Spec2Model ----
(***************************************************************************)
(* Entitlement and quota tracking engine of photo-backend, third iteration *)
(* of the server (src/unnamed/part_000 lines 983-1973): three in-memory    *)
(* Maps, synchronous express handlers, one daily setInterval sweeper.      *)
(*                                                                         *)
(* Time is counted in days.  Date.now() is `now`; the handlers are         *)
(* synchronous, so each one is a single atomic action.  Objects stored in  *)
(* unlimitedAccessTracker are shared by reference between keys, so grants  *)
(* live in a heap (`grants`) and the Map holds references into it.         *)
(***************************************************************************)
EXTENDS Integers, Sequences, FiniteSets, TLC

VARIABLES now, swept, downloadTracker, ipTracker, unlimitedAccessTracker,
          grants, req, resp, served, held,
          Download, UnlimitedAccess, handlers

vars == <<now, swept, downloadTracker, ipTracker, unlimitedAccessTracker,
          grants, req, resp, served, held,
          Download, UnlimitedAccess, handlers>>

\* the state of the server that keeps its data in MongoDB: the two
\* collections and the requests in flight
mongo == <<Download, UnlimitedAccess, handlers>>

stores == <<downloadTracker, ipTracker, unlimitedAccessTracker, grants>>

(* ---------------- bounds and input sets ---------------- *)

MaxGrants == 1
MaxDownloads == 1

\* JS undefined (a field missing from req.body); no real id is this string
undefined == "undefined"

\* "machine_m1" is an account id that a client may send like any other string
UserIds == {"u1", "machine_m1"}
MachineIds == {"m1"}
Ips == {"ip1"}
PaymentIds == {"p1"}
ImageIds == {"img1"}
\* the clock readings at which requests and sweeper runs are observed, in days
Instants == {0, 31}

\* getFullYear(): days per calendar year of the model's clock
DaysPerYear == 365
\* the free quota, the literal 3 of the limit checks
FreeLimit == 3
\* retention windows of the sweeper, in days
TrackerDays == 30
IpDays == 7
\* validity of a grant: 365 * 24 * 60 * 60 * 1000 ms
GrantDays == 365

(* ---------------- helpers ---------------- *)


currentYear == now \div DaysPerYear

userKeyYearless(userId, year) == userId \o "_" \o ToString(0)

\* `${userId}_${currentYear}`
userKeyRegular(userId, year) == userId \o "_" \o ToString(year)

\* machineId ? `machine_${machineId}_${currentYear}` : null
machineKeyRegular(machineId, year) == "machine_" \o machineId \o "_" \o ToString(year)

\* `ip_${ip}_${currentYear}`
ipKeyOf(ip, year) == "ip_" \o ip \o "_" \o ToString(year)

\* `unlimited_user_${userId}`
userKey(userId) == "unlimited_user_" \o userId

\* `unlimited_machine_${machineId}`
machineKey(machineId) == "unlimited_machine_" \o machineId

\* `activation_${activationCode}`
activationKey(code) == "activation_" \o code

\* `payment_${paymentId}`
paymentKey(paymentId) == "payment_" \o paymentId

\* Map.set
MapSet(map, key, value) == [k \in DOMAIN map \cup {key} |-> IF k = key THEN value ELSE map[k]]

\* Map.delete of a set of keys
MapDelete(map, keys) == [k \in DOMAIN map \ keys |-> map[k]]

Has(map, key) == key \in DOMAIN map

\* the downloadsUsed of the record under key, folded into the running maximum
FoldUsed(acc, map, key) ==
    IF Has(map, key) /\ map[key].downloadsUsed > acc THEN map[key].downloadsUsed ELSE acc

(* ---------------- entitlement lookup of the registrar ---------------- *)

RegistrarKeyAccountOnly(userId, machineId) ==
    IF Has(unlimitedAccessTracker, userKey(userId)) THEN userKey(userId) ELSE undefined

RegistrarKeyDeviceOnly(userId, machineId) ==
    IF machineId # undefined /\ Has(unlimitedAccessTracker, machineKey(machineId))
    THEN machineKey(machineId)
    ELSE undefined

\* check-download-allowance / register-download: user key, then machine key
RegistrarKey(userId, machineId) ==
    IF Has(unlimitedAccessTracker, userKey(userId)) THEN userKey(userId)
    ELSE IF machineId # undefined /\ Has(unlimitedAccessTracker, machineKey(machineId))
         THEN machineKey(machineId)
         ELSE undefined

(* ---------------- the limit check ---------------- *)

LimitReachedLate(downloadsUsed) == downloadsUsed > FreeLimit

\* if (downloadsUsed >= 3)
LimitReached(downloadsUsed) == downloadsUsed >= FreeLimit

(* ---------------- reconciliation ---------------- *)

ReconcileLeast(userId, machineId, ip, year) ==
    LET present == {downloadTracker[k].downloadsUsed :
                       k \in {userKeyRegular(userId, year)} \cap DOMAIN downloadTracker}
                   \cup {ipTracker[k].downloadsUsed :
                            k \in {ipKeyOf(ip, year)} \cap DOMAIN ipTracker}
    IN  IF present = {} THEN 0 ELSE CHOOSE x \in present : \A y \in present : x <= y

ReconcileAccountOnly(userId, machineId, ip, year) ==
    FoldUsed(0, downloadTracker, userKeyRegular(userId, year))

\* let downloadsUsed = 0; Math.max over user, machine and ip records
Reconcile(userId, machineId, ip, year) ==
    LET a == FoldUsed(0, downloadTracker, userKeyRegular(userId, year))
        b == IF machineId # undefined
             THEN FoldUsed(a, downloadTracker, machineKeyRegular(machineId, year))
             ELSE a
    IN  FoldUsed(b, ipTracker, ipKeyOf(ip, year))

(* ---------------- the daily sweeper ---------------- *)

StaleOrDue(map, t, window) == {k \in DOMAIN map : t - map[k].lastCheck >= window}

\* keys of a quota Map whose record is older than the window at time t
Stale(map, t, window) == {k \in DOMAIN map : t - map[k].lastCheck > window}

Cleanup(t) ==
    /\ downloadTracker' = MapDelete(downloadTracker, Stale(downloadTracker, t, TrackerDays))
    /\ ipTracker' = MapDelete(ipTracker, Stale(ipTracker, t, IpDays))
    /\ unlimitedAccessTracker' =
          MapDelete(unlimitedAccessTracker,
                    {k \in DOMAIN unlimitedAccessTracker :
                        t > grants[unlimitedAccessTracker[k]].expires})

EmptyMap == [k \in {} |-> 0]

\* the requests of the MongoDB server that can be in flight at once
Slots == {1, 2}

Idle == [pc |-> "idle"]

NoReq == [op |-> "none"]
NoResp == [status |-> 0]

Init ==
    /\ now = 0
    /\ swept = FALSE
    /\ downloadTracker = EmptyMap
    /\ ipTracker = EmptyMap
    /\ unlimitedAccessTracker = EmptyMap
    /\ grants = << >>
    /\ req = NoReq
    /\ resp = NoResp
    /\ served = 0
    /\ held = FALSE
    /\ Download = EmptyMap
    /\ UnlimitedAccess = EmptyMap
    /\ handlers = [h \in Slots |-> Idle]


(* ---------------- requests and responses ---------------- *)

Request(op, userId, machineId, ip, activationCode, paymentId) ==
    [op |-> op, userId |-> userId, machineId |-> machineId, ip |-> ip,
     activationCode |-> activationCode, paymentId |-> paymentId]

HasField(r, f) == f \in DOMAIN r

\* History variables for one observed client: `served` counts the downloads
\* it was granted on the quota path in the current calendar year, `held` tells
\* whether its account key or device key has ever mapped to a grant.
Observed == [userId |-> "u1", machineId |-> "m1", ip |-> "ip1"]

Held(tracker) ==
    \/ held
    \/ Has(tracker, userKey(Observed.userId))
    \/ Has(tracker, machineKey(Observed.machineId))

Served(userId, machineId, ip) ==
    IF [userId |-> userId, machineId |-> machineId, ip |-> ip] = Observed
    THEN served + 1 ELSE served

(* ---------------- POST /api/check-download-allowance ---------------- *)

CheckResponse(userId, machineId, ip) ==
    IF userId = undefined
    THEN [status |-> 400, error |-> "Missing user identification"]
    ELSE LET key == RegistrarKey(userId, machineId) IN
         IF key # undefined
         THEN LET unlimitedData == grants[unlimitedAccessTracker[key]] IN
              IF now > unlimitedData.expires
              THEN [status |-> 200, canDownload |-> FALSE, remainingDownloads |-> 0,
                    unlimitedAccess |-> FALSE,
                    message |-> "Your unlimited access has expired"]
              ELSE [status |-> 200, canDownload |-> TRUE, remainingDownloads |-> "unlimited",
                    unlimitedAccess |-> TRUE,
                    downloadsCount |-> unlimitedData.downloadsCount]
         ELSE LET downloadsUsed == Reconcile(userId, machineId, ip, currentYear) IN
              IF LimitReached(downloadsUsed)
              THEN [status |-> 200, canDownload |-> FALSE, remainingDownloads |-> 0,
                    downloadsUsed |-> downloadsUsed,
                    message |-> "You have used all free downloads for this year"]
              ELSE [status |-> 200, canDownload |-> TRUE,
                    remainingDownloads |-> FreeLimit - downloadsUsed,
                    unlimitedAccess |-> FALSE, downloadsUsed |-> downloadsUsed]

\* req.body may carry an activationCode; the handler does not read it
CheckDownloadAllowance(userId, machineId, ip, activationCode) ==
    /\ UNCHANGED mongo
    /\ req' = Request("check-download-allowance", userId, machineId, ip, activationCode, undefined)
    /\ resp' = CheckResponse(userId, machineId, ip)
    /\ UNCHANGED <<now, swept, stores, served, held>>

\* the unlimited downloads recorded so far, over the first n grants
RECURSIVE Unlimited(_)
Unlimited(n) == IF n = 0 THEN 0 ELSE grants[n].downloadsCount + Unlimited(n - 1)

(* ---------------- POST /api/register-download ---------------- *)

TrackDownloadUncounted(unlimitedData, imageId) ==
    [unlimitedData EXCEPT !.lastDownload = <<now>>,
                          !.downloadHistory = Append(@, imageId)]

TrackDownloadUnlisted(unlimitedData, imageId) ==
    [unlimitedData EXCEPT !.downloadsCount = @ + 1,
                          !.lastDownload = <<now>>]

\* unlimitedData.downloadsCount + 1, lastDownload, downloadHistory.push
TrackDownload(unlimitedData, imageId) ==
    [unlimitedData EXCEPT !.downloadsCount = @ + 1,
                          !.lastDownload = <<now>>,
                          !.downloadHistory = Append(@, imageId)]

\* "Update stored data": the keys register-download writes the grant back to
RegisterWriteBack(tracker, g, userId, machineId) ==
    LET t1 == MapSet(tracker, userKey(userId), g)
        t2 == MapSet(t1, activationKey(grants[g].activationCode), g)
    IN  IF machineId # undefined THEN MapSet(t2, machineKey(machineId), g) ELSE t2

RegisterUnlimitedEvicting(key, userId, machineId, imageId) ==
    LET g == unlimitedAccessTracker[key]
        unlimitedData == grants[g]
    IN  IF now > unlimitedData.expires
        THEN /\ resp' = [status |-> 403, success |-> FALSE,
                         message |-> "Your unlimited access has expired"]
             /\ unlimitedAccessTracker' = MapDelete(unlimitedAccessTracker, {key})
             /\ UNCHANGED <<downloadTracker, ipTracker, grants, served, held>>
        ELSE /\ Unlimited(Len(grants)) < MaxDownloads
             /\ grants' = [grants EXCEPT ![g] = TrackDownload(unlimitedData, imageId)]
             /\ unlimitedAccessTracker' =
                    RegisterWriteBack(unlimitedAccessTracker, g, userId, machineId)
             /\ held' = Held(unlimitedAccessTracker')
             /\ resp' = [status |-> 200, success |-> TRUE, unlimitedAccess |-> TRUE,
                         downloadsCount |-> unlimitedData.downloadsCount + 1,
                         expires |-> unlimitedData.expires,
                         message |-> "Unlimited download processed"]
             /\ UNCHANGED <<downloadTracker, ipTracker, served>>

\* register-download when a grant was found: 403 when expired, else the
\* download is tracked on the grant
RegisterUnlimited(key, userId, machineId, imageId) ==
    LET g == unlimitedAccessTracker[key]
        unlimitedData == grants[g]
    IN  IF now > unlimitedData.expires
        THEN /\ resp' = [status |-> 403, success |-> FALSE,
                         message |-> "Your unlimited access has expired"]
             /\ UNCHANGED <<stores, served, held>>
        ELSE /\ Unlimited(Len(grants)) < MaxDownloads
             /\ grants' = [grants EXCEPT ![g] = TrackDownload(unlimitedData, imageId)]
             /\ unlimitedAccessTracker' =
                    RegisterWriteBack(unlimitedAccessTracker, g, userId, machineId)
             /\ held' = Held(unlimitedAccessTracker')
             /\ resp' = [status |-> 200, success |-> TRUE, unlimitedAccess |-> TRUE,
                         downloadsCount |-> unlimitedData.downloadsCount + 1,
                         expires |-> unlimitedData.expires,
                         message |-> "Unlimited download processed"]
             /\ UNCHANGED <<downloadTracker, ipTracker, served>>

\* the record written for a key that has none yet
NewUserData(used, imageId) ==
    [downloadsUsed |-> used, downloadHistory |-> <<imageId>>, lastCheck |-> now]

\* The ids pushed to userIds are never read back (includes() only guards the
\* push), so the array is kept as a field without its contents.
NewMachineData(used, userId) ==
    [downloadsUsed |-> used, userIds |-> "Array", lastCheck |-> now]

\* "Register download for user": an existing record is changed in place; the
\* push throws a TypeError when the object has no downloadHistory
UserStep(tracker, uk, used, imageId) ==
    IF ~Has(tracker, uk) THEN [map |-> tracker, threw |-> FALSE]
    ELSE IF ~HasField(tracker[uk], "downloadHistory")
    THEN [map |-> [tracker EXCEPT ![uk].downloadsUsed = used], threw |-> TRUE]
    ELSE [map |-> [tracker EXCEPT ![uk] =
                      [@ EXCEPT !.downloadsUsed = used,
                                !.downloadHistory = Append(@, imageId),
                                !.lastCheck = now]],
          threw |-> FALSE]

DeviceStepOwnCount(tracker, key, existed, used, userId) ==
    IF ~existed THEN [map |-> MapSet(tracker, key, NewMachineData(used, userId)),
                      threw |-> FALSE]
    ELSE [map |-> [tracker EXCEPT ![key] = [@ EXCEPT !.downloadsUsed = @ + 1,
                                                     !.lastCheck = now]],
          threw |-> ~HasField(tracker[key], "userIds")]

\* "Register download for machine" (also used for the ip record): a missing
\* record is created and stored; an existing one is changed in place, and
\* userIds.includes throws when the object has no userIds
DeviceStep(tracker, key, existed, used, userId) ==
    IF ~existed THEN [map |-> MapSet(tracker, key, NewMachineData(used, userId)),
                      threw |-> FALSE]
    ELSE IF ~HasField(tracker[key], "userIds")
    THEN [map |-> [tracker EXCEPT ![key] = [@ EXCEPT !.downloadsUsed = used,
                                                     !.lastCheck = now]],
          threw |-> TRUE]
    ELSE [map |-> [tracker EXCEPT ![key] = [@ EXCEPT !.downloadsUsed = used,
                                                     !.lastCheck = now]],
          threw |-> FALSE]

WarningAtZero(remainingDownloads) ==
    IF remainingDownloads = 0 THEN "No downloads remaining!" ELSE "null"

\* the message of a successful free download; "null" stands for JSON null
Warning(remainingDownloads) ==
    IF remainingDownloads = 0 THEN "No downloads remaining!"
    ELSE IF remainingDownloads = 1 THEN "Only 1 download remaining!"
    ELSE "null"

ServerError == [status |-> 500, error |-> "Failed to register download"]

RegisterFree(userId, machineId, ip, imageId) ==
    LET year == currentYear
        uk == userKeyRegular(userId, year)
        mk == IF machineId # undefined THEN machineKeyRegular(machineId, year) ELSE undefined
        ik == ipKeyOf(ip, year)
        hadUser == Has(downloadTracker, uk)
        hadMachine == mk # undefined /\ Has(downloadTracker, mk)
        downloadsUsed == Reconcile(userId, machineId, ip, year)
        used == downloadsUsed + 1
        u == UserStep(downloadTracker, uk, used, imageId)
        m == IF mk = undefined THEN [map |-> u.map, threw |-> FALSE]
             ELSE DeviceStep(u.map, mk, hadMachine, used, userId)
        i == DeviceStep(ipTracker, ik, Has(ipTracker, ik), used, userId)
        remainingDownloads == FreeLimit - used
    IN  IF LimitReached(downloadsUsed)
        THEN /\ resp' = [status |-> 403, success |-> FALSE, remainingDownloads |-> 0,
                         downloadsUsed |-> downloadsUsed,
                         message |-> "Download limit reached for this device"]
             /\ UNCHANGED <<stores, served, held>>
        ELSE IF u.threw
        THEN /\ downloadTracker' = u.map
             /\ resp' = ServerError
             /\ UNCHANGED <<ipTracker, unlimitedAccessTracker, grants, served, held>>
        ELSE IF m.threw
        THEN /\ downloadTracker' = m.map
             /\ resp' = ServerError
             /\ UNCHANGED <<ipTracker, unlimitedAccessTracker, grants, served, held>>
        ELSE /\ downloadTracker' =
                    MapSet(m.map, uk, IF hadUser THEN m.map[uk]
                                      ELSE NewUserData(used, imageId))
             /\ ipTracker' = i.map
             /\ served' = Served(userId, machineId, ip)
             /\ resp' = [status |-> 200, success |-> TRUE,
                         remainingDownloads |-> remainingDownloads,
                         downloadsUsed |-> used,
                         message |-> Warning(remainingDownloads)]
             /\ UNCHANGED <<unlimitedAccessTracker, grants, held>>

\* req.body may carry an activationCode; the handler does not read it
RegisterDownload(userId, machineId, ip, imageId, activationCode) ==
    /\ UNCHANGED mongo
    /\ req' = Request("register-download", userId, machineId, ip, activationCode, undefined)
    /\ UNCHANGED <<now, swept>>
    /\ IF userId = undefined
       THEN /\ resp' = [status |-> 400, error |-> "Missing user identification"]
            /\ UNCHANGED <<stores, served, held>>
       ELSE LET key == RegistrarKey(userId, machineId) IN
            IF key # undefined
            THEN RegisterUnlimited(key, userId, machineId, imageId)
            ELSE RegisterFree(userId, machineId, ip, imageId)

(* ---------------- grant creation ---------------- *)

\* `UL-${Date.now()}-${Math.random()...}`: a code no earlier activation produced
FreshCode == "UL-" \o ToString(Len(grants) + 1)

\* the unlimitedData object literal of the three activation handlers
NewGrant(userId, machineId, paymentId) ==
    [userId |-> userId,
     machineId |-> IF machineId # undefined THEN machineId ELSE "unknown",
     paymentId |-> paymentId,
     activationCode |-> FreshCode,
     activated |-> now,
     expires |-> now + GrantDays,
     downloadsCount |-> 0,
     lastDownload |-> << >>,
     downloadHistory |-> << >>]

\* if (machineId) unlimitedAccessTracker.set(machineKey, unlimitedData)
SetMachineKey(tracker, machineId, g) ==
    IF machineId # undefined THEN MapSet(tracker, machineKey(machineId), g) ELSE tracker

\* activate-unlimited stores under the user key and the activation key
ActivateStore(tracker, g, userId, machineId, code) ==
    SetMachineKey(MapSet(MapSet(tracker, userKey(userId), g), activationKey(code), g),
                  machineId, g)

\* register-device and capture-paypal-order also store under the payment key
PaidStore(tracker, g, userId, machineId, code, paymentId) ==
    SetMachineKey(MapSet(MapSet(MapSet(tracker, userKey(userId), g),
                                paymentKey(paymentId), g),
                         activationKey(code), g),
                  machineId, g)

Activated(op, code) ==
    [status |-> 200, success |-> TRUE, activationCode |-> code,
     expires |-> now + GrantDays,
     message |-> IF op = "activate-unlimited" THEN "Unlimited downloads activated for 1 year"
                 ELSE IF op = "register-device" THEN "Device registered for unlimited access"
                 ELSE "Payment successful! Unlimited access activated."]

Rejected(error) ==
    /\ resp' = [status |-> 400, error |-> error]
    /\ UNCHANGED <<stores, served, held>>

\* POST /api/activate-unlimited
ActivateUnlimited(userId, machineId, paymentId, cap) ==
    /\ UNCHANGED mongo
    /\ req' = Request("activate-unlimited", userId, machineId, undefined, undefined, paymentId)
    /\ UNCHANGED <<now, swept>>
    /\ IF userId = undefined THEN Rejected("Missing user ID")
       ELSE /\ Len(grants) < cap
            /\ grants' = Append(grants,
                   NewGrant(userId, machineId,
                            IF paymentId # undefined THEN paymentId
                            ELSE "payment_" \o ToString(now)))
            /\ unlimitedAccessTracker' =
                   ActivateStore(unlimitedAccessTracker, Len(grants) + 1,
                                 userId, machineId, FreshCode)
            /\ held' = Held(unlimitedAccessTracker')
            /\ resp' = Activated("activate-unlimited", FreshCode)
            /\ UNCHANGED <<downloadTracker, ipTracker, served>>

\* POST /api/register-device
RegisterDevice(userId, machineId, paymentId, cap) ==
    /\ UNCHANGED mongo
    /\ req' = Request("register-device", userId, machineId, undefined, undefined, paymentId)
    /\ UNCHANGED <<now, swept>>
    /\ IF userId = undefined \/ paymentId = undefined THEN Rejected("Missing required fields")
       ELSE /\ Len(grants) < cap
            /\ grants' = Append(grants, NewGrant(userId, machineId, paymentId))
            /\ unlimitedAccessTracker' =
                   PaidStore(unlimitedAccessTracker, Len(grants) + 1,
                             userId, machineId, FreshCode, paymentId)
            /\ held' = Held(unlimitedAccessTracker')
            /\ resp' = Activated("register-device", FreshCode)
            /\ UNCHANGED <<downloadTracker, ipTracker, served>>

\* POST /api/capture-paypal-order; `captured` is the outcome of the PayPal call.
\* A missing userId is stored as 'unknown' in the object, while the key is
\* built from the template literal, `unlimited_user_undefined`.
CapturePaypalOrder(orderID, userId, machineId, captured, cap) ==
    /\ UNCHANGED mongo
    /\ req' = Request("capture-paypal-order", userId, machineId, undefined, undefined, orderID)
    /\ UNCHANGED <<now, swept>>
    /\ IF orderID = undefined THEN Rejected("Missing orderID")
       ELSE IF ~captured
       THEN /\ resp' = [status |-> 500, error |-> "Failed to capture PayPal payment"]
            /\ UNCHANGED <<stores, served, held>>
       ELSE /\ Len(grants) < cap
            /\ grants' = Append(grants,
                   NewGrant(IF userId # undefined THEN userId ELSE "unknown",
                            machineId, orderID))
            /\ unlimitedAccessTracker' =
                   PaidStore(unlimitedAccessTracker, Len(grants) + 1,
                             userId, machineId, FreshCode, orderID)
            /\ held' = Held(unlimitedAccessTracker')
            /\ resp' = Activated("capture-paypal-order", FreshCode)
            /\ UNCHANGED <<downloadTracker, ipTracker, served>>

(* ---------------- grant lookup: verify-unlimited, download-unlimited ---------------- *)

ResolveKeyAccountFirst(userId, machineId, activationCode) ==
    IF Has(unlimitedAccessTracker, userKey(userId)) THEN userKey(userId)
    ELSE IF activationCode # undefined
            /\ Has(unlimitedAccessTracker, activationKey(activationCode))
    THEN activationKey(activationCode)
    ELSE IF machineId # undefined /\ Has(unlimitedAccessTracker, machineKey(machineId))
         THEN machineKey(machineId)
         ELSE undefined

\* activation code first, then user id, then machine id
ResolveKey(userId, machineId, activationCode) ==
    IF activationCode # undefined /\ Has(unlimitedAccessTracker, activationKey(activationCode))
    THEN activationKey(activationCode)
    ELSE IF Has(unlimitedAccessTracker, userKey(userId)) THEN userKey(userId)
    ELSE IF machineId # undefined /\ Has(unlimitedAccessTracker, machineKey(machineId))
         THEN machineKey(machineId)
         ELSE undefined

VerifyResponse(userId, machineId, activationCode) ==
    IF userId = undefined THEN [status |-> 400, error |-> "Missing user ID"]
    ELSE LET key == ResolveKey(userId, machineId, activationCode) IN
         IF key = undefined
         THEN [status |-> 200, hasUnlimited |-> FALSE,
               message |-> "No unlimited access found"]
         ELSE LET unlimitedData == grants[unlimitedAccessTracker[key]] IN
              IF now > unlimitedData.expires
              THEN [status |-> 200, hasUnlimited |-> FALSE,
                    message |-> "Unlimited access has expired"]
              ELSE [status |-> 200, hasUnlimited |-> TRUE,
                    activated |-> unlimitedData.activated,
                    expires |-> unlimitedData.expires,
                    downloadsCount |-> unlimitedData.downloadsCount,
                    activationCode |-> unlimitedData.activationCode]

\* POST /api/verify-unlimited
VerifyUnlimited(userId, machineId, activationCode) ==
    /\ UNCHANGED mongo
    /\ req' = Request("verify-unlimited", userId, machineId, undefined, activationCode, undefined)
    /\ resp' = VerifyResponse(userId, machineId, activationCode)
    /\ UNCHANGED <<now, swept, stores, served, held>>

(* ---------------- the read endpoints ---------------- *)

\* GET /api/user-downloads/:userId
UserDownloadsResponse(userId) ==
    IF Has(unlimitedAccessTracker, userKey(userId))
    THEN LET unlimitedData == grants[unlimitedAccessTracker[userKey(userId)]] IN
         [status |-> 200, unlimitedAccess |-> TRUE,
          downloadsCount |-> unlimitedData.downloadsCount, downloadsUsed |-> 0,
          remainingDownloads |-> "unlimited",
          downloadHistory |-> unlimitedData.downloadHistory,
          activated |-> unlimitedData.activated, expires |-> unlimitedData.expires]
    ELSE IF ~Has(downloadTracker, userKeyRegular(userId, currentYear))
    THEN [status |-> 200, downloadsUsed |-> 0, remainingDownloads |-> FreeLimit,
          unlimitedAccess |-> FALSE, downloadHistory |-> << >>]
    ELSE LET userData == downloadTracker[userKeyRegular(userId, currentYear)] IN
         [status |-> 200, downloadsUsed |-> userData.downloadsUsed,
          remainingDownloads |-> FreeLimit - userData.downloadsUsed,
          unlimitedAccess |-> FALSE,
          downloadHistory |-> IF HasField(userData, "downloadHistory")
                              THEN userData.downloadHistory ELSE << >>]

UserDownloads(userId) ==
    /\ UNCHANGED mongo
    /\ req' = Request("user-downloads", userId, undefined, undefined, undefined, undefined)
    /\ resp' = UserDownloadsResponse(userId)
    /\ UNCHANGED <<now, swept, stores, served, held>>

\* GET /api/unlimited-info/:userId
UnlimitedInfoResponse(userId) ==
    IF ~Has(unlimitedAccessTracker, userKey(userId))
    THEN [status |-> 200, hasUnlimited |-> FALSE, message |-> "No unlimited access found"]
    ELSE LET unlimitedData == grants[unlimitedAccessTracker[userKey(userId)]] IN
         [status |-> 200, hasUnlimited |-> TRUE,
          activationCode |-> unlimitedData.activationCode,
          activated |-> unlimitedData.activated, expires |-> unlimitedData.expires,
          daysRemaining |-> unlimitedData.expires - now,
          downloadsCount |-> unlimitedData.downloadsCount]

UnlimitedInfo(userId) ==
    /\ UNCHANGED mongo
    /\ req' = Request("unlimited-info", userId, undefined, undefined, undefined, undefined)
    /\ resp' = UnlimitedInfoResponse(userId)
    /\ UNCHANGED <<now, swept, stores, served, held>>

\* "Update all stored references": the keys download-unlimited writes back to
DownloadWriteBack(tracker, g, userId, machineId) ==
    SetMachineKey(MapSet(MapSet(tracker, userKey(userId), g),
                         activationKey(grants[g].activationCode), g),
                  machineId, g)

\* POST /api/download-unlimited
DownloadUnlimited(userId, machineId, activationCode, imageId) ==
    /\ UNCHANGED mongo
    /\ req' = Request("download-unlimited", userId, machineId, undefined, activationCode, undefined)
    /\ UNCHANGED <<now, swept>>
    /\ IF userId = undefined \/ imageId = undefined THEN Rejected("Missing required fields")
       ELSE LET key == ResolveKey(userId, machineId, activationCode) IN
            IF key = undefined
            THEN /\ resp' = [status |-> 403, success |-> FALSE,
                             message |-> "No unlimited access found"]
                 /\ UNCHANGED <<stores, served, held>>
            ELSE LET g == unlimitedAccessTracker[key]
                     unlimitedData == grants[g]
                 IN  IF now > unlimitedData.expires
                     THEN /\ resp' = [status |-> 403, success |-> FALSE,
                                      message |-> "Your unlimited access has expired"]
                          /\ UNCHANGED <<stores, served, held>>
                     ELSE /\ Unlimited(Len(grants)) < MaxDownloads
                          /\ grants' = [grants EXCEPT ![g] = TrackDownload(unlimitedData, imageId)]
                          /\ unlimitedAccessTracker' =
                                 DownloadWriteBack(unlimitedAccessTracker, g, userId, machineId)
                          /\ held' = Held(unlimitedAccessTracker')
                          /\ resp' = [status |-> 200, success |-> TRUE,
                                      downloadsCount |-> unlimitedData.downloadsCount + 1,
                                      expires |-> unlimitedData.expires,
                                      message |-> "Unlimited download granted"]
                          /\ UNCHANGED <<downloadTracker, ipTracker, served>>

\* the setInterval callback, run for the current day
Sweeper ==
    /\ UNCHANGED mongo
    /\ ~swept
    /\ Cleanup(now)
    /\ swept' = TRUE
    /\ req' = [op |-> "sweeper"]
    /\ resp' = NoResp
    /\ UNCHANGED <<now, grants, served, held>>

\* the clock moves on to t with no request in between; the callback fires once
\* a day, so the runs of the days now .. t-1 have happened when the clock reads
\* t (the last of them removes whatever the earlier ones removed).  A new
\* calendar year starts the count of served downloads afresh.
Advance(t) ==
    /\ UNCHANGED mongo
    /\ t > now
    /\ now' = t
    /\ Cleanup(t - 1)
    /\ swept' = FALSE
    /\ req' = [op |-> "advance"]
    /\ resp' = NoResp
    /\ served' = IF t \div DaysPerYear = currentYear THEN served ELSE 0
    /\ UNCHANGED <<grants, held>>

Opt(S) == S \cup {undefined}

\* the activation codes handed out so far
Codes == {grants[g].activationCode : g \in 1..Len(grants)}

\* the activationCode a caller of the registrar sends along, if it sends any
Presented(presenting) == IF presenting THEN Opt(Codes) ELSE {undefined}

\* One step of the server, for requests whose fields are drawn from the sets
\* of D (a set holds `undefined` when the field may be missing):
\*   callers, devices, ips, presenting    check-download-allowance and register-download
\*   payers, payerDevices, payments, outcomes    the three activation handlers
\*   holders, holderDevices, images    verify-unlimited and download-unlimited
\*   instants    the clock readings
\*   grants    how many grants may be created in a run
NextOver(D) ==
    \/ Sweeper
    \/ \E t \in D.instants : Advance(t)
    \/ \E userId \in D.callers, machineId \in D.devices, ip \in D.ips,
          code \in Presented(D.presenting) :
          CheckDownloadAllowance(userId, machineId, ip, code)
    \/ \E userId \in D.callers, machineId \in D.devices, ip \in D.ips, imageId \in ImageIds,
          code \in Presented(D.presenting) :
          RegisterDownload(userId, machineId, ip, imageId, code)
    \/ \E userId \in D.payers, machineId \in D.payerDevices, paymentId \in D.payments :
          ActivateUnlimited(userId, machineId, paymentId, D.grants)
    \/ \E userId \in D.payers, machineId \in D.payerDevices, paymentId \in D.payments :
          RegisterDevice(userId, machineId, paymentId, D.grants)
    \/ \E userId \in D.payers, machineId \in D.payerDevices, orderID \in D.payments,
          captured \in D.outcomes :
          CapturePaypalOrder(orderID, userId, machineId, captured, D.grants)
    \/ \E userId \in D.holders, machineId \in D.holderDevices, code \in Opt(Codes) :
          VerifyUnlimited(userId, machineId, code)
    \/ \E userId \in D.holders, machineId \in D.holderDevices, code \in Opt(Codes),
          imageId \in D.images :
          DownloadUnlimited(userId, machineId, code, imageId)

\* the quota side in full: two accounts, one of them named like a device key,
\* with and without the device id; one account buys a grant
QuotaDomain ==
    [callers |-> UserIds, devices |-> Opt(MachineIds), ips |-> Ips,
     presenting |-> FALSE, instants |-> Instants,
     payers |-> {"u1"}, payerDevices |-> {undefined}, payments |-> {undefined},
     outcomes |-> {TRUE}, grants |-> MaxGrants,
     holders |-> {"u1"}, holderDevices |-> {undefined}, images |-> ImageIds]

\* one grant from activation to expiry, bought with a device id, next to the
\* free downloads of the buyer and of a second account on the same device
EntitledDomain ==
    [callers |-> {"u1", "u2"}, devices |-> Opt(MachineIds), ips |-> Ips,
     presenting |-> FALSE, instants |-> {0, 366},
     payers |-> {"u1"}, payerDevices |-> Opt(MachineIds), payments |-> {undefined},
     outcomes |-> {TRUE}, grants |-> MaxGrants,
     holders |-> {"u1"}, holderDevices |-> {undefined}, images |-> ImageIds]

\* repeated activation: two paying accounts, two grants, activated a day apart
GrantDomain ==
    [callers |-> {"u1"}, devices |-> {undefined}, ips |-> Ips,
     presenting |-> FALSE, instants |-> {0, 1},
     payers |-> {"u1", "u2"}, payerDevices |-> Opt(MachineIds), payments |-> PaymentIds,
     outcomes |-> BOOLEAN, grants |-> MaxGrants + 1,
     holders |-> {"u1"}, holderDevices |-> Opt(MachineIds), images |-> ImageIds]

\* lookup by code, account and device: the holder has no grant of its own and
\* reaches the payer's two grants through a code or the shared device; the
\* payer is the caller of the registrar
LookupDomain ==
    [callers |-> {"u2"}, devices |-> {undefined}, ips |-> Ips,
     presenting |-> FALSE, instants |-> {0, 366},
     payers |-> {"u2"}, payerDevices |-> Opt(MachineIds), payments |-> PaymentIds,
     outcomes |-> {TRUE}, grants |-> MaxGrants + 1,
     holders |-> {"u1"}, holderDevices |-> Opt(MachineIds), images |-> ImageIds]

\* requests with fields missing or unread: no account id, no payment id, a
\* code sent to the registrar
MissingDomain ==
    [callers |-> Opt({"u1"}), devices |-> Opt(MachineIds), ips |-> Ips,
     presenting |-> TRUE, instants |-> {0, 1},
     payers |-> Opt({"u2"}), payerDevices |-> Opt(MachineIds), payments |-> Opt(PaymentIds),
     outcomes |-> {TRUE}, grants |-> MaxGrants,
     holders |-> Opt({"u1"}), holderDevices |-> {undefined}, images |-> ImageIds]

\* the retention windows: records written 31, 30 and 29 days before a run
\* on day 31, and 8 and 7 days before a run on day 8
SweepDomain ==
    [callers |-> {"u1"}, devices |-> Opt(MachineIds), ips |-> Ips,
     presenting |-> FALSE, instants |-> {0, 1, 2, 8, 31},
     payers |-> {"u1"}, payerDevices |-> {undefined}, payments |-> {undefined},
     outcomes |-> {TRUE}, grants |-> MaxGrants,
     holders |-> {"u1"}, holderDevices |-> {undefined}, images |-> ImageIds]

\* the quota side alone: two accounts on one device and two addresses; every
\* request of the grant side lacks its account id and is rejected
UsageDomain ==
    [callers |-> {"u1", "u2"}, devices |-> Opt(MachineIds), ips |-> {"ip1", "ip2"},
     presenting |-> FALSE, instants |-> {1},
     payers |-> {undefined}, payerDevices |-> {undefined}, payments |-> {undefined},
     outcomes |-> {TRUE}, grants |-> MaxGrants,
     holders |-> {undefined}, holderDevices |-> {undefined}, images |-> ImageIds]

\* the turn of the year: one account, with and without its device, on the
\* last day of year 0 and the first day of year 1
EpochDomain ==
    [callers |-> {"u1"}, devices |-> Opt(MachineIds), ips |-> Ips,
     presenting |-> FALSE, instants |-> {364, 365},
     payers |-> {undefined}, payerDevices |-> {undefined}, payments |-> {undefined},
     outcomes |-> {TRUE}, grants |-> MaxGrants,
     holders |-> {undefined}, holderDevices |-> {undefined}, images |-> ImageIds]

\* an expired grant next to a valid one: two accounts buy, with or without
\* the device, on the first day and on the day after the grants of the first
\* day have expired
ShadowDomain ==
    [callers |-> {"u1"}, devices |-> Opt(MachineIds), ips |-> Ips,
     presenting |-> FALSE, instants |-> {366},
     payers |-> {"u1", "u2"}, payerDevices |-> Opt(MachineIds), payments |-> {undefined},
     outcomes |-> {TRUE}, grants |-> MaxGrants + 1,
     holders |-> {"u1"}, holderDevices |-> {undefined}, images |-> ImageIds]

\* a grant at its expiry: the clock reads expires and then a day more
ExpiryDomain ==
    [callers |-> {"u1"}, devices |-> {undefined}, ips |-> Ips,
     presenting |-> FALSE, instants |-> {365, 366},
     payers |-> {"u1"}, payerDevices |-> Opt(MachineIds), payments |-> {undefined},
     outcomes |-> {TRUE}, grants |-> MaxGrants,
     holders |-> {"u1"}, holderDevices |-> Opt(MachineIds), images |-> ImageIds]

(* ---------------- the server that keeps the unlimited flag in downloadTracker ---------------- *)

\* This server has downloadTracker and ipTracker only: a paid account is a
\* record with unlimitedAccess set, under the same per-year key as its quota.
\* It stores no grant; `grants` is used here as a history variable, the log
\* of the activations it has answered (account, time, promised expiry).

\* userData.unlimitedAccess || false
V2Flag(map, key) ==
    Has(map, key) /\ HasField(map[key], "unlimitedAccess") /\ map[key].unlimitedAccess

V2UnlimitedAccess(userId, machineId, year) ==
    \/ V2Flag(downloadTracker, userKeyRegular(userId, year))
    \/ machineId # undefined /\ V2Flag(downloadTracker, machineKeyRegular(machineId, year))

\* obj.field = value on a record that may lack the field
SetField(r, f, value) == [k \in DOMAIN r \cup {f} |-> IF k = f THEN value ELSE r[k]]

\* the setInterval callback: 30 days for downloadTracker, 7 for ipTracker
V2Cleanup(t) ==
    /\ downloadTracker' = MapDelete(downloadTracker, Stale(downloadTracker, t, TrackerDays))
    /\ ipTracker' = MapDelete(ipTracker, Stale(ipTracker, t, IpDays))

V2Sweeper ==
    /\ UNCHANGED mongo
    /\ ~swept
    /\ V2Cleanup(now)
    /\ swept' = TRUE
    /\ req' = [op |-> "sweeper"]
    /\ resp' = NoResp
    /\ UNCHANGED <<now, unlimitedAccessTracker, grants, served, held>>

\* the clock moves on to t; the daily runs of the days before t have happened
V2Advance(t) ==
    /\ UNCHANGED mongo
    /\ t > now
    /\ now' = t
    /\ V2Cleanup(t - 1)
    /\ swept' = FALSE
    /\ req' = [op |-> "advance"]
    /\ resp' = NoResp
    /\ UNCHANGED <<unlimitedAccessTracker, grants, served, held>>

V2CheckResponse(userId, machineId, ip) ==
    IF userId = undefined
    THEN [status |-> 400, error |-> "Missing user identification"]
    ELSE LET downloadsUsed == Reconcile(userId, machineId, ip, currentYear) IN
         IF V2UnlimitedAccess(userId, machineId, currentYear)
         THEN [status |-> 200, canDownload |-> TRUE, remainingDownloads |-> "unlimited",
               unlimitedAccess |-> TRUE, downloadsUsed |-> downloadsUsed]
         ELSE IF LimitReached(downloadsUsed)
         THEN [status |-> 200, canDownload |-> FALSE, remainingDownloads |-> 0,
               downloadsUsed |-> downloadsUsed,
               message |-> "You have used all free downloads for this year"]
         ELSE [status |-> 200, canDownload |-> TRUE,
               remainingDownloads |-> FreeLimit - downloadsUsed,
               unlimitedAccess |-> FALSE, downloadsUsed |-> downloadsUsed]

\* POST /api/check-download-allowance
V2CheckDownloadAllowance(userId, machineId, ip) ==
    /\ UNCHANGED mongo
    /\ req' = Request("check-download-allowance", userId, machineId, ip, undefined, undefined)
    /\ resp' = V2CheckResponse(userId, machineId, ip)
    /\ UNCHANGED <<now, swept, stores, served, held>>

\* "Log download but don't count against limit": the download is pushed to
\* the account's history (the push throws when the object under the account
\* key has none) and the record is stored; lastCheck is left as it was
V2RegisterUnlimited(userId, ip, imageId, downloadsUsed) ==
    LET uk == userKeyRegular(userId, currentYear)
        fresh == [downloadsUsed |-> 0, unlimitedAccess |-> TRUE,
                  downloadHistory |-> <<imageId>>, lastCheck |-> now]
    IN  IF Has(downloadTracker, uk) /\ ~HasField(downloadTracker[uk], "downloadHistory")
        THEN /\ resp' = ServerError
             /\ UNCHANGED downloadTracker
        ELSE /\ Has(downloadTracker, uk)
                => Len(downloadTracker[uk].downloadHistory) < FreeLimit + MaxDownloads
             /\ downloadTracker' =
                    MapSet(downloadTracker, uk,
                           IF Has(downloadTracker, uk)
                           THEN [downloadTracker[uk] EXCEPT
                                    !.downloadHistory = Append(@, imageId)]
                           ELSE fresh)
             /\ resp' = [status |-> 200, success |-> TRUE,
                         remainingDownloads |-> "unlimited",
                         unlimitedAccess |-> TRUE, downloadsUsed |-> downloadsUsed]

\* the quota path: downloadsUsed + 1 into the account, device and ip records
V2RegisterFree(userId, machineId, ip, imageId, downloadsUsed) ==
    LET year == currentYear
        uk == userKeyRegular(userId, year)
        mk == IF machineId # undefined THEN machineKeyRegular(machineId, year) ELSE undefined
        ik == ipKeyOf(ip, year)
        hadUser == Has(downloadTracker, uk)
        used == downloadsUsed + 1
        u == UserStep(downloadTracker, uk, used, imageId)
        m == IF mk = undefined THEN [map |-> u.map, threw |-> FALSE]
             ELSE DeviceStep(u.map, mk, Has(downloadTracker, mk), used, userId)
        i == DeviceStep(ipTracker, ik, Has(ipTracker, ik), used, userId)
        fresh == [downloadsUsed |-> used, unlimitedAccess |-> FALSE,
                  downloadHistory |-> <<imageId>>, lastCheck |-> now]
    IN  IF LimitReached(downloadsUsed)
        THEN /\ resp' = [status |-> 403, success |-> FALSE, remainingDownloads |-> 0,
                         downloadsUsed |-> downloadsUsed,
                         message |-> "Download limit reached for this device"]
             /\ UNCHANGED <<downloadTracker, ipTracker>>
        ELSE IF u.threw
        THEN /\ downloadTracker' = u.map
             /\ resp' = ServerError
             /\ UNCHANGED ipTracker
        ELSE IF m.threw
        THEN /\ downloadTracker' = m.map
             /\ resp' = ServerError
             /\ UNCHANGED ipTracker
        ELSE /\ downloadTracker' = MapSet(m.map, uk, IF hadUser THEN m.map[uk] ELSE fresh)
             /\ ipTracker' = i.map
             /\ resp' = [status |-> 200, success |-> TRUE,
                         remainingDownloads |-> FreeLimit - used,
                         downloadsUsed |-> used,
                         message |-> Warning(FreeLimit - used)]

\* POST /api/register-download
V2RegisterDownload(userId, machineId, ip, imageId) ==
    /\ UNCHANGED mongo
    /\ req' = Request("register-download", userId, machineId, ip, undefined, undefined)
    /\ UNCHANGED <<now, swept, unlimitedAccessTracker, grants, served, held>>
    /\ IF userId = undefined
       THEN /\ resp' = [status |-> 400, error |-> "Missing user identification"]
            /\ UNCHANGED <<downloadTracker, ipTracker>>
       ELSE LET downloadsUsed == Reconcile(userId, machineId, ip, currentYear) IN
            IF V2UnlimitedAccess(userId, machineId, currentYear)
            THEN V2RegisterUnlimited(userId, ip, imageId, downloadsUsed) /\ UNCHANGED ipTracker
            ELSE V2RegisterFree(userId, machineId, ip, imageId, downloadsUsed)

\* the account record after activation: created flagged, or flagged in place
V2ActivateUser(tracker, uk) ==
    MapSet(tracker, uk,
           IF Has(tracker, uk)
           THEN SetField(SetField(tracker[uk], "unlimitedAccess", TRUE), "lastCheck", now)
           ELSE [downloadsUsed |-> 0, unlimitedAccess |-> TRUE,
                 downloadHistory |-> << >>, lastCheck |-> now])

\* "Also activate for machine if provided"; userIds.includes throws on an
\* object without userIds, after the flag has been set on it
V2ActivateMachine(tracker, mk) ==
    IF ~Has(tracker, mk)
    THEN [map |-> MapSet(tracker, mk, [downloadsUsed |-> 0, unlimitedAccess |-> TRUE,
                                       userIds |-> "Array", lastCheck |-> now]),
          threw |-> FALSE]
    ELSE [map |-> MapSet(tracker, mk,
                         SetField(SetField(tracker[mk], "unlimitedAccess", TRUE),
                                  "lastCheck", now)),
          threw |-> ~HasField(tracker[mk], "userIds")]

\* POST /api/activate-unlimited; at most `most` activations are answered in a run
V2ActivateUnlimited(userId, machineId, paymentId, most) ==
    /\ UNCHANGED mongo
    /\ req' = Request("activate-unlimited", userId, machineId, undefined, undefined, paymentId)
    /\ UNCHANGED <<now, swept, ipTracker, unlimitedAccessTracker, served, held>>
    /\ IF userId = undefined
       THEN /\ resp' = [status |-> 400, error |-> "Missing user ID"]
            /\ UNCHANGED <<downloadTracker, grants>>
       ELSE LET u == V2ActivateUser(downloadTracker, userKeyRegular(userId, currentYear))
                m == IF machineId = undefined THEN [map |-> u, threw |-> FALSE]
                     ELSE V2ActivateMachine(u, machineKeyRegular(machineId, currentYear))
            IN  /\ downloadTracker' = m.map
                /\ IF m.threw
                   THEN /\ resp' = [status |-> 500,
                                    error |-> "Failed to activate unlimited access"]
                        /\ UNCHANGED grants
                   ELSE /\ Len(grants) < most
                        /\ resp' = [status |-> 200, success |-> TRUE, unlimitedAccess |-> TRUE,
                                    activated |-> now, expires |-> now + GrantDays,
                                    message |-> "Unlimited downloads activated for 1 year"]
                        /\ grants' = Append(grants, [userId |-> userId, activated |-> now,
                                                     expires |-> now + GrantDays])

\* one account with and without its device, on one address, over a year
NextV2 ==
    \/ V2Sweeper
    \/ \E t \in {0, 31, 364, 365} : V2Advance(t)
    \/ \E userId \in Opt({"u1"}), machineId \in Opt(MachineIds), ip \in Ips :
          V2CheckDownloadAllowance(userId, machineId, ip)
    \/ \E userId \in Opt({"u1"}), machineId \in Opt(MachineIds), ip \in Ips,
          imageId \in ImageIds :
          V2RegisterDownload(userId, machineId, ip, imageId)
    \/ \E userId \in Opt({"u1"}), machineId \in Opt(MachineIds), paymentId \in PaymentIds :
          V2ActivateUnlimited(userId, machineId, paymentId, MaxGrants)

SpecV2 == Init /\ [][NextV2]_vars

(* ---------------- the first server: one downloadTracker ---------------- *)

\* The first iteration of the server (src/unnamed/part_000 lines 1-527) has
\* one Map, keyed per account and year; a record carries the quota counter,
\* the history and the unlimited flag.  `held` is used here as a history
\* variable: an activation of the account has been answered with success.

\* oneDay of the sweeper, in days
V1Days == 1

\* `${userId}_${currentYear}`
V1Key(userId, year) == userId \o "_" \o ToString(year)

V1Request(op, userId, userFingerprint, paymentId) ==
    [op |-> op, userId |-> userId, userFingerprint |-> userFingerprint,
     paymentId |-> paymentId]

\* the setInterval callback: records whose lastCheck is more than a day old go
V1Sweeper ==
    /\ UNCHANGED mongo
    /\ ~swept
    /\ downloadTracker' = MapDelete(downloadTracker, Stale(downloadTracker, now, V1Days))
    /\ swept' = TRUE
    /\ req' = [op |-> "sweeper"]
    /\ resp' = NoResp
    /\ UNCHANGED <<now, ipTracker, unlimitedAccessTracker, grants, served, held>>

\* the clock moves on to t; the daily runs of the days before t have happened
V1Advance(t) ==
    /\ UNCHANGED mongo
    /\ t > now
    /\ now' = t
    /\ downloadTracker' = MapDelete(downloadTracker, Stale(downloadTracker, t - 1, V1Days))
    /\ swept' = FALSE
    /\ req' = [op |-> "advance"]
    /\ resp' = NoResp
    /\ UNCHANGED <<ipTracker, unlimitedAccessTracker, grants, served, held>>

\* POST /api/check-download-allowance; a new account of the year gets a record
V1CheckDownloadAllowance(userId, userFingerprint) ==
    /\ UNCHANGED mongo
    /\ req' = V1Request("check-download-allowance", userId, userFingerprint, undefined)
    /\ UNCHANGED <<now, swept, ipTracker, unlimitedAccessTracker, grants, served, held>>
    /\ IF userId = undefined \/ userFingerprint = undefined
       THEN /\ resp' = [status |-> 400, error |-> "Missing user identification"]
            /\ UNCHANGED downloadTracker
       ELSE LET key == V1Key(userId, currentYear)
                userData == IF Has(downloadTracker, key) THEN downloadTracker[key]
                            ELSE [userFingerprint |-> userFingerprint, downloadsUsed |-> 0,
                                  remainingDownloads |-> FreeLimit,
                                  downloadHistory |-> << >>,
                                  unlimitedAccess |-> FALSE, lastCheck |-> now]
            IN  /\ downloadTracker' = MapSet(downloadTracker, key, userData)
                /\ resp' =
                     IF userData.unlimitedAccess
                     THEN [status |-> 200, canDownload |-> TRUE,
                           remainingDownloads |-> "unlimited", unlimitedAccess |-> TRUE]
                     ELSE IF LimitReached(userData.downloadsUsed)
                     THEN [status |-> 200, canDownload |-> FALSE, remainingDownloads |-> 0,
                           message |-> "You have used all free downloads for this year"]
                     ELSE [status |-> 200, canDownload |-> TRUE,
                           remainingDownloads |-> FreeLimit - userData.downloadsUsed,
                           unlimitedAccess |-> FALSE]

\* userData.downloadHistory.push(...): a TypeError on a record without the field
V1Push(userData, imageId) ==
    IF HasField(userData, "downloadHistory")
    THEN [map |-> [userData EXCEPT !.downloadHistory = Append(@, imageId)],
          threw |-> FALSE]
    ELSE [map |-> userData, threw |-> TRUE]

\* POST /api/register-download; the objects of the Map are changed in place,
\* so what the handler did before a throw stays
V1RegisterDownload(userId, userFingerprint, imageId) ==
    /\ UNCHANGED mongo
    /\ req' = V1Request("register-download", userId, userFingerprint, undefined)
    /\ UNCHANGED <<now, swept, ipTracker, unlimitedAccessTracker, grants, served, held>>
    /\ IF userId = undefined \/ userFingerprint = undefined
       THEN /\ resp' = [status |-> 400, error |-> "Missing user identification"]
            /\ UNCHANGED downloadTracker
       ELSE LET key == V1Key(userId, currentYear) IN
            IF ~Has(downloadTracker, key)
            THEN /\ downloadTracker' =
                        MapSet(downloadTracker, key,
                               [userFingerprint |-> userFingerprint, downloadsUsed |-> 1,
                                remainingDownloads |-> FreeLimit - 1,
                                downloadHistory |-> <<imageId>>,
                                unlimitedAccess |-> FALSE, lastCheck |-> now])
                 /\ resp' = [status |-> 200, success |-> TRUE,
                             remainingDownloads |-> FreeLimit - 1, downloadsUsed |-> 1]
            ELSE LET userData == downloadTracker[key]
                     pushed == V1Push(userData, imageId)
                     used == userData.downloadsUsed + 1
                     counted == [userData EXCEPT !.downloadsUsed = used,
                                                 !.remainingDownloads = FreeLimit - used]
                     logged == V1Push(counted, imageId)
                 IN  IF userData.unlimitedAccess
                     THEN IF pushed.threw
                          THEN /\ resp' = ServerError
                               /\ UNCHANGED downloadTracker
                          ELSE /\ Len(userData.downloadHistory) < FreeLimit + MaxDownloads
                               /\ downloadTracker' = MapSet(downloadTracker, key, pushed.map)
                               /\ resp' = [status |-> 200, success |-> TRUE,
                                           remainingDownloads |-> "unlimited",
                                           unlimitedAccess |-> TRUE]
                     ELSE IF LimitReached(userData.downloadsUsed)
                     THEN /\ resp' = [status |-> 403, success |-> FALSE,
                                      message |-> "Download limit reached. Please purchase unlimited access."]
                          /\ UNCHANGED downloadTracker
                     ELSE /\ downloadTracker' = MapSet(downloadTracker, key, logged.map)
                          /\ resp' = IF logged.threw THEN ServerError
                                     ELSE [status |-> 200, success |-> TRUE,
                                           remainingDownloads |-> FreeLimit - used,
                                           downloadsUsed |-> used]

\* POST /api/activate-unlimited: the record is flagged in place, or created
\* flagged and without a history
V1ActivateUnlimited(userId, paymentId) ==
    /\ UNCHANGED mongo
    /\ req' = V1Request("activate-unlimited", userId, undefined, paymentId)
    /\ UNCHANGED <<now, swept, ipTracker, unlimitedAccessTracker, grants, served>>
    /\ IF userId = undefined
       THEN /\ resp' = [status |-> 400, error |-> "Missing user ID"]
            /\ UNCHANGED <<downloadTracker, held>>
       ELSE LET key == V1Key(userId, currentYear) IN
            /\ downloadTracker' =
                  MapSet(downloadTracker, key,
                         IF Has(downloadTracker, key)
                         THEN SetField(downloadTracker[key], "unlimitedAccess", TRUE)
                         ELSE [downloadsUsed |-> 0, remainingDownloads |-> 0,
                               unlimitedAccess |-> TRUE, lastCheck |-> now])
            /\ held' = TRUE
            /\ resp' = [status |-> 200, success |-> TRUE, unlimitedAccess |-> TRUE,
                        activated |-> now,
                        message |-> "Unlimited downloads activated for 1 year"]

\* one account, with and without its fingerprint, over two days and a new year
NextV1 ==
    \/ V1Sweeper
    \/ \E t \in {0, 2, 365} : V1Advance(t)
    \/ \E userId \in Opt({"u1"}), userFingerprint \in Opt({"fp1"}) :
          V1CheckDownloadAllowance(userId, userFingerprint)
    \/ \E userId \in Opt({"u1"}), userFingerprint \in Opt({"fp1"}),
          imageId \in ImageIds :
          V1RegisterDownload(userId, userFingerprint, imageId)
    \/ \E userId \in Opt({"u1"}), paymentId \in PaymentIds :
          V1ActivateUnlimited(userId, paymentId)

SpecV1 == Init /\ [][NextV1]_vars

(* ---------------- the server that keeps its data in MongoDB ---------------- *)

\* A handler of this server is an async function: between two awaits it runs
\* alone, and each awaited database operation is applied at a moment of its
\* own, so the handlers of several requests interleave at their awaits.
\* handlers[h] holds the position and the locals of the request in slot h.
\* Download is the collection of Download documents as a multiset (the
\* documents differ in _id only), UnlimitedAccess the collection of
\* UnlimitedAccess documents by their unique userId.  Times are in days and a
\* month is taken as 30 days.

dailyLimit == 5
monthlyLimit == 20

\* new Date(new Date().setHours(0, 0, 0, 0))
dayStart(t) == t

\* new Date(new Date().getFullYear(), new Date().getMonth(), 1)
monthStart(t) == t - (t % 30)

\* the documents of a collection that a set of document shapes stands for
RECURSIVE Total(_, _)
Total(coll, shapes) ==
    IF shapes = {} THEN 0
    ELSE LET d == CHOOSE x \in shapes : TRUE IN coll[d] + Total(coll, shapes \ {d})

\* Download.countDocuments({ userId, downloadedAt: { $gte: since } })
countDocuments(coll, userId, since) ==
    Total(coll, {d \in DOMAIN coll : d.userId = userId /\ d.downloadedAt >= since})

\* n times new Download({...}).save()
SaveDownloads(coll, doc, n) ==
    [d \in DOMAIN coll \cup {doc} |->
        (IF d \in DOMAIN coll THEN coll[d] ELSE 0) + (IF d = doc THEN n ELSE 0)]

NotFound == [found |-> FALSE]

\* the document a findOne resolves to, as the object the handler holds
Loaded(userId) ==
    [found |-> TRUE, userId |-> userId,
     downloadsCount |-> UnlimitedAccess[userId].downloadsCount]

\* { isActive: true, expiresAt: { $gt: new Date() } }
Active(userId) ==
    UnlimitedAccess[userId].isActive /\ UnlimitedAccess[userId].expiresAt > now

\* UnlimitedAccess.findOne({ activationCode, isActive: true, expiresAt: ... })
FindOneByCode(activationCode) ==
    LET hits == {u \in DOMAIN UnlimitedAccess :
                    UnlimitedAccess[u].activationCode = activationCode /\ Active(u)}
    IN  IF hits = {} THEN NotFound ELSE Loaded(CHOOSE u \in hits : TRUE)

\* UnlimitedAccess.findOne({ userId, isActive: true, expiresAt: ... })
FindOneByUser(userId) ==
    IF userId \in DOMAIN UnlimitedAccess /\ Active(userId)
    THEN Loaded(userId) ELSE NotFound

\* the request as it is logged with its response
MongoRequest(op, userId, activationCode, count) ==
    [op |-> op, userId |-> userId, activationCode |-> activationCode, count |-> count]

Answer(h, response) ==
    /\ req' = MongoRequest(handlers[h].op, handlers[h].userId,
                           handlers[h].activationCode, handlers[h].count)
    /\ resp' = response
    /\ handlers' = [handlers EXCEPT ![h] = Idle]

\* POST /api/track-download, up to its first await
TrackBegin(h, userId, imageId, activationCode) ==
    /\ handlers[h].pc = "idle"
    /\ UNCHANGED <<now, swept, stores, served, held, Download, UnlimitedAccess>>
    /\ IF userId = undefined \/ imageId = undefined
       THEN /\ req' = MongoRequest("track-download", userId, activationCode, 1)
            /\ resp' = [status |-> 400, error |-> "Missing required fields"]
            /\ UNCHANGED handlers
       ELSE /\ handlers' = [handlers EXCEPT ![h] =
                    [pc |-> IF activationCode # undefined THEN "findByCode" ELSE "findByUser",
                     op |-> "track-download", userId |-> userId,
                     activationCode |-> activationCode, count |-> 1,
                     unlimitedData |-> NotFound]]
            /\ UNCHANGED <<req, resp>>

\* POST /api/bulk-download, up to its first await; `listed` tells whether the
\* body carries an imageIds array, count is its length
BulkBegin(h, userId, listed, count, activationCode) ==
    /\ handlers[h].pc = "idle"
    /\ UNCHANGED <<now, swept, stores, served, held, Download, UnlimitedAccess>>
    /\ IF userId = undefined \/ ~listed
       THEN /\ req' = MongoRequest("bulk-download", userId, activationCode, count)
            /\ resp' = [status |-> 400, error |-> "Invalid request"]
            /\ UNCHANGED handlers
       ELSE IF count > 50
       THEN /\ req' = MongoRequest("bulk-download", userId, activationCode, count)
            /\ resp' = [status |-> 400, error |-> "Maximum 50 images per bulk download"]
            /\ UNCHANGED handlers
       ELSE /\ handlers' = [handlers EXCEPT ![h] =
                    [pc |-> IF activationCode # undefined THEN "findByCode" ELSE "findByUser",
                     op |-> "bulk-download", userId |-> userId,
                     activationCode |-> activationCode, count |-> count,
                     unlimitedData |-> NotFound]]
            /\ UNCHANGED <<req, resp>>

\* await UnlimitedAccess.findOne({ activationCode, ... })
FindByCode(h) ==
    /\ handlers[h].pc = "findByCode"
    /\ UNCHANGED <<now, swept, stores, served, held, Download, UnlimitedAccess, req, resp>>
    /\ LET unlimitedData == FindOneByCode(handlers[h].activationCode)
       IN  handlers' = [handlers EXCEPT ![h].unlimitedData = unlimitedData,
                                        ![h].pc = IF unlimitedData.found THEN "record"
                                                  ELSE "findByUser"]

\* await UnlimitedAccess.findOne({ userId, ... }); bulk-download answers 403
\* when it finds none
FindByUser(h) ==
    /\ handlers[h].pc = "findByUser"
    /\ UNCHANGED <<now, swept, stores, served, held, Download, UnlimitedAccess>>
    /\ LET unlimitedData == FindOneByUser(handlers[h].userId)
       IN  IF handlers[h].op = "bulk-download" /\ ~unlimitedData.found
           THEN Answer(h, [status |-> 403,
                           error |-> "Unlimited access required for bulk downloads"])
           ELSE /\ handlers' = [handlers EXCEPT ![h].unlimitedData = unlimitedData,
                                                ![h].pc = "record"]
                /\ UNCHANGED <<req, resp>>

\* "Record download": await download.save(), or the saves of a bulk download;
\* at most `most` documents are saved in a run
RecordDownload(h, most) ==
    LET isUnlimited == handlers[h].unlimitedData.found
        download == [userId |-> handlers[h].userId, downloadedAt |-> now,
                     unlimitedAccess |-> isUnlimited]
    IN  /\ handlers[h].pc = "record"
        /\ Total(Download, DOMAIN Download) + handlers[h].count <= most
        /\ Download' = SaveDownloads(Download, download, handlers[h].count)
        /\ handlers' = [handlers EXCEPT ![h].pc = IF isUnlimited THEN "stats"
                                                  ELSE "countToday"]
        /\ UNCHANGED <<now, swept, stores, served, held, UnlimitedAccess, req, resp>>

\* "Update unlimited access stats": downloadsCount += n on the object loaded
\* by findOne, then await save(), which writes the new value of the field
UpdateStats(h) ==
    LET unlimitedData == handlers[h].unlimitedData IN
    /\ handlers[h].pc = "stats"
    /\ UnlimitedAccess' =
          [UnlimitedAccess EXCEPT ![unlimitedData.userId].downloadsCount =
                                      unlimitedData.downloadsCount + handlers[h].count]
    /\ Answer(h, [status |-> 200, success |-> TRUE, unlimited |-> TRUE,
                  count |-> handlers[h].count])
    /\ UNCHANGED <<now, swept, stores, served, held, Download>>

\* await Download.countDocuments({ userId, downloadedAt: today })
CountToday(h) ==
    /\ handlers[h].pc = "countToday"
    /\ handlers' = [handlers EXCEPT ![h] =
          [handlers[h] EXCEPT !.pc = "countMonth"] @@
          [downloadsToday |-> countDocuments(Download, handlers[h].userId, dayStart(now))]]
    /\ UNCHANGED <<now, swept, stores, served, held, Download, UnlimitedAccess, req, resp>>

\* await Download.countDocuments({ userId, downloadedAt: this month }), then
\* the limit checks and the response
CountMonth(h) ==
    LET downloadsToday == handlers[h].downloadsToday
        downloadsThisMonth == countDocuments(Download, handlers[h].userId, monthStart(now))
    IN  /\ handlers[h].pc = "countMonth"
        /\ Answer(h, IF downloadsToday >= dailyLimit
                     THEN [status |-> 429, success |-> FALSE,
                           message |-> "Daily download limit reached",
                           limit |-> dailyLimit, used |-> downloadsToday]
                     ELSE IF downloadsThisMonth >= monthlyLimit
                     THEN [status |-> 429, success |-> FALSE,
                           message |-> "Monthly download limit reached",
                           limit |-> monthlyLimit, used |-> downloadsThisMonth]
                     ELSE [status |-> 200, success |-> TRUE, unlimited |-> FALSE,
                           watermarked |-> TRUE])
        /\ UNCHANGED <<now, swept, stores, served, held, Download, UnlimitedAccess>>

\* expiresAt of the plan bought; without a known plan it stays new Date()
PlanExpiry(plan) ==
    IF plan = "yearly" THEN now + DaysPerYear
    ELSE IF plan = "monthly" THEN now + 30
    ELSE IF plan = "lifetime" THEN now + 100 * DaysPerYear
    ELSE now

\* POST /api/webhooks/stripe, checkout.session.completed: the UnlimitedAccess
\* document of the buyer is saved; userId is unique, so a second one fails
StripeWebhook(userId, plan) ==
    /\ req' = MongoRequest("stripe-webhook", userId, undefined, 0)
    /\ UNCHANGED <<now, swept, stores, served, held, Download, handlers>>
    /\ IF userId = undefined
       THEN /\ resp' = [status |-> 200, received |-> TRUE]
            /\ UNCHANGED UnlimitedAccess
       ELSE IF userId \in DOMAIN UnlimitedAccess
       THEN /\ resp' = [status |-> 500, error |-> "Webhook processing failed"]
            /\ UNCHANGED UnlimitedAccess
       ELSE /\ resp' = [status |-> 200, received |-> TRUE]
            /\ UnlimitedAccess' =
                  MapSet(UnlimitedAccess, userId,
                         [activationCode |-> "ARC-" \o userId, expiresAt |-> PlanExpiry(plan),
                          downloadsCount |-> 0, isActive |-> TRUE])

\* the clock of the MongoDB server moves on to t
Elapse(t) ==
    /\ t > now
    /\ now' = t
    /\ req' = [op |-> "advance"]
    /\ resp' = NoResp
    /\ UNCHANGED <<swept, stores, served, held, mongo>>

\* One step of the MongoDB server, for requests drawn from the sets of D:
\*   slots     the requests that may be in flight at once
\*   users, codes, images, batches    the fields of track-download and bulk-download
\*   buyers, plans    the checkout sessions completed
\*   instants  the clock readings
\*   documents how many Download documents may be saved in a run
NextMongo(D) ==
    \/ \E t \in D.instants : Elapse(t)
    \/ \E userId \in D.buyers, plan \in D.plans : StripeWebhook(userId, plan)
    \/ \E h \in D.slots, userId \in D.users, imageId \in D.images, code \in D.codes :
          TrackBegin(h, userId, imageId, code)
    \/ \E h \in D.slots, userId \in D.users, count \in D.batches, code \in D.codes :
          BulkBegin(h, userId, TRUE, count, code)
    \/ \E h \in D.slots : FindByCode(h)
    \/ \E h \in D.slots : FindByUser(h)
    \/ \E h \in D.slots : RecordDownload(h, D.documents)
    \/ \E h \in D.slots : UpdateStats(h)
    \/ \E h \in D.slots : CountToday(h)
    \/ \E h \in D.slots : CountMonth(h)

\* two requests in flight at once, of one account before and after it buys
\* the yearly plan, with and without its activation code
ConcurrentDomain ==
    [slots |-> Slots, users |-> {"u1"}, codes |-> Opt({"ARC-u1"}),
     images |-> ImageIds, batches |-> {2}, buyers |-> {"u1"}, plans |-> {"yearly"},
     instants |-> {1}, documents |-> 4]

\* one request at a time of one account, over two days of one month, up to
\* the daily and the monthly limit
LimitDomain ==
    [slots |-> {1}, users |-> {"u2"}, codes |-> Opt({"ARC-u2"}),
     images |-> ImageIds, batches |-> {2}, buyers |-> {"u2"}, plans |-> {"yearly"},
     instants |-> {1}, documents |-> monthlyLimit + 2]

(* ---------------- what a request names ---------------- *)

\* the quota records a request for (userId, machineId, ip) names at the present time
NamedCounters(userId, machineId, ip) ==
    {downloadTracker[k].downloadsUsed :
        k \in ({userKeyRegular(userId, currentYear)}
               \cup (IF machineId # undefined
                     THEN {machineKeyRegular(machineId, currentYear)} ELSE {}))
              \cap DOMAIN downloadTracker}
    \cup {ipTracker[k].downloadsUsed : k \in {ipKeyOf(ip, currentYear)} \cap DOMAIN ipTracker}

Greatest(S) == IF S = {} THEN 0 ELSE CHOOSE x \in S : \A y \in S : x >= y

IsRegister(r) == r.op = "register-download"
IsCheck(r) == r.op = "check-download-allowance"

\* no grant is found for the request by the registrar's lookup
NoGrantFor(r) == RegistrarKey(r.userId, r.machineId) = undefined

(* ---------------- C1 ---------------- *)

\* C1: in every reachable state every record of downloadTracker and of
\* ipTracker has downloadsUsed in 0..3.
C1_CountersWithinQuota ==
    /\ \A k \in DOMAIN downloadTracker : downloadTracker[k].downloadsUsed \in 0..FreeLimit
    /\ \A k \in DOMAIN ipTracker : ipTracker[k].downloadsUsed \in 0..FreeLimit

\* a register-download has just been denied with the counters at the limit
C1_Witness ==
    /\ IsRegister(req) /\ resp.status = 403 /\ HasField(resp, "downloadsUsed")
    /\ \E k \in DOMAIN downloadTracker : downloadTracker[k].downloadsUsed = FreeLimit
    /\ \E k \in DOMAIN ipTracker : ipTracker[k].downloadsUsed = FreeLimit

(* ---------------- C2 ---------------- *)

\* C2: a client that never holds a grant and always presents the same account
\* id, device id and network address is answered success by at most 3 of its
\* register-download calls within one calendar year, sweeper runs included.
C2_ThreePerYear == ~held => served <= FreeLimit

(* ---------------- C3 ---------------- *)

\* the only quota records are those the request names, each holding k
\* downloads (k = 0: there is none): the account, device and address have
\* been used by this client alone, k times
OwnRecordsOnly(r, k, users, addresses) ==
    LET uk == userKeyRegular(r.userId, currentYear)
        mk == machineKeyRegular(r.machineId, currentYear)
        ik == ipKeyOf(r.ip, currentYear)
        named == {uk} \cup (IF r.machineId # undefined THEN {mk} ELSE {})
    IN  /\ Len(grants) = 0
        /\ DOMAIN users = (IF k = 0 THEN {} ELSE named)
        /\ DOMAIN addresses = (IF k = 0 THEN {} ELSE {ik})
        /\ \A key \in DOMAIN users : users[key].downloadsUsed = k
        /\ \A key \in DOMAIN addresses : addresses[key].downloadsUsed = k

\* the request r follows a register-download of the same client
SameClient(q, r) ==
    /\ IsRegister(q)
    /\ q.userId = r.userId /\ q.machineId = r.machineId /\ q.ip = r.ip

\* C3 (Scenario A): for an account, device and address with no quota record
\* and no grant, the first three register-download calls succeed with
\* remainingDownloads 2, 1, 0 and the fourth is denied with 403: the call made
\* after k calls of the scenario succeeds with remainingDownloads 2 - k and
\* leaves the records at k + 1 when k < 3, and is denied when k = 3.
C3_ScenarioA ==
    [][\A k \in 0..FreeLimit :
          (/\ IsRegister(req') /\ OwnRecordsOnly(req', k, downloadTracker, ipTracker)
           /\ k > 0 => SameClient(req, req'))
          => IF k < FreeLimit
             THEN /\ resp'.status = 200 /\ resp'.success
                  /\ resp'.remainingDownloads = FreeLimit - 1 - k
                  /\ OwnRecordsOnly(req', k + 1, downloadTracker', ipTracker')
             ELSE resp'.status = 403 /\ ~resp'.success]_vars

(* ---------------- C4 ---------------- *)

\* C4: the downloadsUsed that check-download-allowance reports, and that
\* register-download starts from, is the greatest downloadsUsed among the
\* account record, the device record (when a device id is supplied) and the
\* address record of the current year, and 0 when none of them exists.
C4_ReconciledIsGreatest ==
    [][((IsCheck(req') \/ IsRegister(req')) /\ HasField(resp', "downloadsUsed"))
       => LET k == Greatest(NamedCounters(req'.userId, req'.machineId, req'.ip))
          IN  resp'.downloadsUsed = IF IsRegister(req') /\ resp'.status = 200
                                    THEN k + 1 ELSE k]_vars

\* a check reported more than the account's own record holds
C4_Witness ==
    /\ IsCheck(req) /\ HasField(resp, "downloadsUsed") /\ resp.downloadsUsed = 2
    /\ Has(downloadTracker, userKeyRegular(req.userId, currentYear))
    /\ downloadTracker[userKeyRegular(req.userId, currentYear)].downloadsUsed = 1

(* ---------------- C5 ---------------- *)

\* C5 (Scenario B): when no grant applies and one of the records the request
\* names has downloadsUsed = 3, register-download is denied with 403 and
\* changes no store, whatever the other two records hold.
C5_AnyDimensionDenies ==
    [][(IsRegister(req') /\ req'.userId # undefined /\ NoGrantFor(req')
        /\ FreeLimit \in NamedCounters(req'.userId, req'.machineId, req'.ip))
       => /\ resp'.status = 403 /\ ~resp'.success
          /\ UNCHANGED stores]_vars

\* denied on the account record alone: the address record is gone
C5_Witness ==
    /\ IsRegister(req) /\ resp.status = 403
    /\ ~Has(ipTracker, ipKeyOf(req.ip, currentYear))
    /\ Has(downloadTracker, userKeyRegular(req.userId, currentYear))
    /\ downloadTracker[userKeyRegular(req.userId, currentYear)].downloadsUsed = FreeLimit

(* ---------------- C6 ---------------- *)

\* the grant the registrar is meant to find: under the account key, or,
\* failing that, under the key of the device id supplied (0: none)
GrantOf(userId, machineId) ==
    IF userKey(userId) \in DOMAIN unlimitedAccessTracker
    THEN unlimitedAccessTracker[userKey(userId)]
    ELSE IF machineId # undefined /\ machineKey(machineId) \in DOMAIN unlimitedAccessTracker
         THEN unlimitedAccessTracker[machineKey(machineId)]
         ELSE 0

Unexpired(g) == g # 0 /\ now <= grants[g].expires

\* C6: the entitlement check precedes the quota check: whenever the account
\* key, or failing that the supplied device key, maps to an unexpired grant,
\* register-download succeeds on the unlimited path and
\* check-download-allowance answers canDownload with 'unlimited' remaining,
\* whatever the quota records hold.
C6_EntitlementFirst ==
    [][((IsCheck(req') \/ IsRegister(req')) /\ req'.userId # undefined
        /\ Unexpired(GrantOf(req'.userId, req'.machineId)))
       => /\ resp'.status = 200
          /\ HasField(resp', "unlimitedAccess") /\ resp'.unlimitedAccess
          /\ IsRegister(req') => (resp'.success /\ UNCHANGED <<downloadTracker, ipTracker>>)
          /\ IsCheck(req') => (resp'.canDownload /\ resp'.remainingDownloads = "unlimited")]_vars

\* an unlimited download was served to an account whose free quota is used up
C6_Witness ==
    /\ IsRegister(req) /\ resp.status = 200
    /\ HasField(resp, "unlimitedAccess") /\ resp.unlimitedAccess
    /\ Has(downloadTracker, userKeyRegular(req.userId, currentYear))
    /\ downloadTracker[userKeyRegular(req.userId, currentYear)].downloadsUsed = FreeLimit

(* ---------------- C7 ---------------- *)

\* grant h is grant g but for its downloadsCount, lastDownload and downloadHistory
SameButUsage(g, h) ==
    [h EXCEPT !.downloadsCount = g.downloadsCount, !.lastDownload = g.lastDownload,
              !.downloadHistory = g.downloadHistory] = g

C8_ExpiredIsAbsent ==
    [][((IsCheck(req') \/ IsRegister(req')) /\ req'.userId # undefined
        /\ Has(unlimitedAccessTracker, userKey(req'.userId))
        /\ now > grants[unlimitedAccessTracker[userKey(req'.userId)]].expires)
       => LET k == Greatest(NamedCounters(req'.userId, req'.machineId, req'.ip))
          IN  IF IsCheck(req')
              THEN resp'.canDownload = (k < FreeLimit)
              ELSE resp'.status = (IF k < FreeLimit THEN 200 ELSE 403)]_vars

(* ---------------- C9 ---------------- *)

\* the activations made for an account, in order of creation
ActivationsOf(userId) == {g \in 1..Len(grants) : grants[g].userId = userId}

Latest(userId) == Greatest(ActivationsOf(userId))

GrantWithCode(code) == CHOOSE g \in 1..Len(grants) : grants[g].activationCode = code

\* C9: after two activations of one account, every verify-unlimited lookup
\* that reaches a grant of that account returns the second grant.
C9_ReactivationReplaces ==
    (req.op = "verify-unlimited" /\ HasField(resp, "activationCode"))
    => LET g == GrantWithCode(resp.activationCode)
           account == grants[g].userId
       IN  Cardinality(ActivationsOf(account)) >= 2
           => /\ g = Latest(account)
              /\ resp.expires = grants[Latest(account)].expires

(* ---------------- C10 ---------------- *)

\* C10: from the activation of an account at time t until t + 365 days,
\* verify-unlimited with the account id alone answers hasUnlimited with
\* expires = t + 365 days, t being the account's latest activation.
C10_RoundTrip ==
    (/\ req.op = "verify-unlimited" /\ req.userId # undefined
     /\ req.machineId = undefined /\ req.activationCode = undefined
     /\ ActivationsOf(req.userId) # {}
     /\ now < grants[Latest(req.userId)].activated + GrantDays)
    => /\ resp.hasUnlimited
       /\ resp.expires = grants[Latest(req.userId)].activated + GrantDays

(* ---------------- C11 ---------------- *)

\* the grant the lookup is to select: the one under the activation-code key
\* when a code is supplied and that key exists, otherwise the one under the
\* account key, otherwise the one under the key of the device id supplied
\* (0: no grant)
Selected(r) ==
    IF r.activationCode # undefined
       /\ activationKey(r.activationCode) \in DOMAIN unlimitedAccessTracker
    THEN unlimitedAccessTracker[activationKey(r.activationCode)]
    ELSE GrantOf(r.userId, r.machineId)

IsVerify(r) == r.op = "verify-unlimited"
IsDownload(r) == r.op = "download-unlimited"

\* C11: verify-unlimited and download-unlimited answer from the grant under
\* the first key that exists, in the order activation code, account, device:
\* without one they answer not found; with an unexpired one verify-unlimited
\* returns its code and expiry and download-unlimited counts the download on it.
C11_FirstKeyDecides ==
    [][((IsVerify(req') \/ IsDownload(req')) /\ req'.userId # undefined)
       => LET g == Selected(req') IN
          IF g = 0
          THEN IF IsVerify(req') THEN resp'.status = 200 /\ ~resp'.hasUnlimited
               ELSE resp'.status = 403
          ELSE IF ~Unexpired(g)
          THEN IF IsVerify(req') THEN ~resp'.hasUnlimited ELSE resp'.status = 403
          ELSE IF IsVerify(req')
               THEN /\ resp'.hasUnlimited
                    /\ resp'.activationCode = grants[g].activationCode
                    /\ resp'.expires = grants[g].expires
               ELSE /\ resp'.status = 200
                    /\ grants'[g].downloadsCount = grants[g].downloadsCount + 1
                    /\ resp'.downloadsCount = grants'[g].downloadsCount]_vars

\* the code decided against the account key: the account is bound to one
\* grant and was answered with the other, whose code it presented
C11_Witness ==
    /\ IsVerify(req) /\ req.activationCode # undefined /\ resp.hasUnlimited
    /\ Has(unlimitedAccessTracker, userKey(req.userId))
    /\ grants[unlimitedAccessTracker[userKey(req.userId)]].activationCode
           # resp.activationCode

(* ---------------- C12 ---------------- *)

\* C12: a caller of the registrar that presents the code of an unexpired
\* grant, with an account id and a device id that map to no grant, is treated
\* as unlimited: check-download-allowance reports unlimitedAccess, and
\* register-download succeeds without touching the quota records.
C12_CodeRecognised ==
    [][(/\ IsCheck(req') \/ IsRegister(req')
        /\ req'.userId # undefined /\ req'.machineId # undefined
        /\ req'.activationCode # undefined
        /\ GrantOf(req'.userId, req'.machineId) = 0
        /\ Has(unlimitedAccessTracker, activationKey(req'.activationCode))
        /\ Unexpired(unlimitedAccessTracker[activationKey(req'.activationCode)]))
       => /\ resp'.status = 200
          /\ HasField(resp', "unlimitedAccess") /\ resp'.unlimitedAccess
          /\ IsRegister(req') => UNCHANGED <<downloadTracker, ipTracker>>]_vars

(* ---------------- C13 ---------------- *)

IsActivation(r) == r.op \in {"activate-unlimited", "register-device", "capture-paypal-order"}

\* key is stored and references the grant g
StoredUnder(key, g) == Has(unlimitedAccessTracker, key) /\ unlimitedAccessTracker[key] = g

\* C13: an activation that succeeded leaves the new grant stored under the
\* account key, the activation-code key, the payment-id key, and the device
\* key when a device id was supplied.
C13_StoredUnderAllKeys ==
    (IsActivation(req) /\ resp.status = 200)
    => LET g == Len(grants) IN
       /\ StoredUnder(userKey(grants[g].userId), g)
       /\ StoredUnder(activationKey(grants[g].activationCode), g)
       /\ StoredUnder(paymentKey(grants[g].paymentId), g)
       /\ req.machineId # undefined => StoredUnder(machineKey(req.machineId), g)

(* ---------------- C14 ---------------- *)

\* the request was answered as an unlimited download
UnlimitedServed(r, answer) ==
    /\ IsRegister(r) \/ IsDownload(r)
    /\ answer.status = 200 /\ HasField(answer, "downloadsCount")

\* the grant an unlimited download is served from
ServedFrom(r) == IF IsDownload(r) THEN Selected(r) ELSE GrantOf(r.userId, r.machineId)

\* C14: after an unlimited download every key of unlimitedAccessTracker
\* under which the grant served is stored, those that referenced it before
\* included, yields the same downloadsCount, lastDownload and
\* downloadHistory: the count the response reports, the time of the
\* download, and the history one entry longer.
C14_NoStaleCopy ==
    [][UnlimitedServed(req', resp')
       => LET g == ServedFrom(req')
              code == grants[g].activationCode
              Fresh(k) == LET d == grants'[unlimitedAccessTracker'[k]] IN
                          /\ d.downloadsCount = resp'.downloadsCount
                          /\ d.downloadsCount = grants[g].downloadsCount + 1
                          /\ d.lastDownload = <<now>>
                          /\ Len(d.downloadHistory) = Len(grants[g].downloadHistory) + 1
          IN  /\ \A k \in DOMAIN unlimitedAccessTracker' :
                    grants'[unlimitedAccessTracker'[k]].activationCode = code => Fresh(k)
              /\ \A k \in DOMAIN unlimitedAccessTracker :
                    unlimitedAccessTracker[k] = g
                    => k \in DOMAIN unlimitedAccessTracker' /\ Fresh(k)]_vars

\* a download was served from a grant stored under account, device, payment
\* and code keys
C14_Witness ==
    /\ UnlimitedServed(req, resp)
    /\ \E g \in 1..Len(grants) :
          /\ grants[g].downloadsCount = resp.downloadsCount
          /\ StoredUnder(userKey(grants[g].userId), g)
          /\ StoredUnder(paymentKey(grants[g].paymentId), g)
          /\ StoredUnder(activationKey(grants[g].activationCode), g)
          /\ StoredUnder(machineKey(grants[g].machineId), g)

(* ---------------- C15 ---------------- *)

C16_DeniedChangesNothing ==
    [][(IsRegister(req') /\ resp'.status = 403)
       => UNCHANGED <<downloadTracker, ipTracker, unlimitedAccessTracker, grants>>]_vars

\* denied for an expired grant, with quota records on file
C16_Witness ==
    /\ IsRegister(req) /\ resp.status = 403
    /\ resp.message = "Your unlimited access has expired"
    /\ DOMAIN downloadTracker # {} /\ DOMAIN ipTracker # {}

(* ---------------- C17 ---------------- *)

\* every quota record the request r names exists in the Maps given and holds k
AllAt(r, k, users, addresses) ==
    LET uk == userKeyRegular(r.userId, currentYear)
        mk == machineKeyRegular(r.machineId, currentYear)
        ik == ipKeyOf(r.ip, currentYear)
    IN  /\ Has(users, uk) /\ users[uk].downloadsUsed = k
        /\ r.machineId # undefined => (Has(users, mk) /\ users[mk].downloadsUsed = k)
        /\ Has(addresses, ik) /\ addresses[ik].downloadsUsed = k

\* C17 (check-then-register race): with no grant and the reconciled usage
\* at 2, a check answers canDownload and the register-download served first
\* succeeds with downloadsUsed 3 and remainingDownloads 0, leaving the
\* identity's counters at 3; the register-download served at usage 3 is
\* denied with 403 and changes no counter.  Two checks followed by two
\* registers, in any order of service, thus end with one success, one
\* denial and the counters at 3.
C17_OneOfTwoSucceeds ==
    [][((IsCheck(req') \/ IsRegister(req')) /\ req'.userId # undefined /\ NoGrantFor(req'))
       => LET k == Greatest(NamedCounters(req'.userId, req'.machineId, req'.ip)) IN
          /\ (k = FreeLimit - 1 /\ IsCheck(req')) => resp'.canDownload
          /\ (k = FreeLimit - 1 /\ IsRegister(req'))
             => /\ resp'.status = 200
                /\ resp'.downloadsUsed = FreeLimit /\ resp'.remainingDownloads = 0
                /\ AllAt(req', FreeLimit, downloadTracker', ipTracker')
          /\ (k = FreeLimit /\ IsRegister(req'))
             => resp'.status = 403 /\ UNCHANGED <<downloadTracker, ipTracker>>]_vars

(* ---------------- C18 ---------------- *)

\* C18: verify-unlimited never fails: whichever of account id, device id and
\* activation code are present, it answers with hasUnlimited true or false,
\* and with hasUnlimited false when no grant is found.
C18_VerifyNeverFails ==
    IsVerify(req)
    => /\ resp.status = 200
       /\ HasField(resp, "hasUnlimited") /\ resp.hasUnlimited \in BOOLEAN
       /\ Selected(req) = 0 => ~resp.hasUnlimited

(* ---------------- C19 ---------------- *)

\* C19: check-download-allowance, register-download and the three
\* operations that create a grant reject a request without an account id
\* with 400 and change no store; no grant is stored for a missing account id.
C19_MissingAccountRejected ==
    [][((IsCheck(req') \/ IsRegister(req') \/ IsActivation(req')) /\ req'.userId = undefined)
       => /\ resp'.status = 400
          /\ UNCHANGED <<downloadTracker, ipTracker, unlimitedAccessTracker, grants>>]_vars

(* ---------------- C20 ---------------- *)

\* the records of a quota Map written no more than `window` days before now
Retained(map, window) ==
    [k \in {key \in DOMAIN map : now - map[key].lastCheck <= window} |-> map[k]]

\* C20 (Scenario D): a sweeper run removes exactly the account and device
\* records last written more than 30 days before it and exactly the address
\* records last written more than 7 days before it, and leaves every other
\* quota record as it was.
C20_RetentionWindows ==
    [][req'.op = "sweeper"
       => /\ downloadTracker' = Retained(downloadTracker, TrackerDays)
          /\ ipTracker' = Retained(ipTracker, IpDays)]_vars

\* a run on day 31 kept the account record written 29 days before; the
\* device record and the address record written with it earlier are gone
C20_Witness ==
    /\ req.op = "sweeper" /\ now = 31
    /\ \E k \in DOMAIN downloadTracker :
          /\ downloadTracker[k].lastCheck = now - 29
          /\ downloadTracker[k].downloadsUsed = 2
    /\ Cardinality(DOMAIN downloadTracker) = 1
    /\ DOMAIN ipTracker = {}

(* ---------------- C21 ---------------- *)

\* C21: a sweeper run at time now deletes, under every key, each grant with
\* expires <= now and no grant with expires > now; after the run no key
\* maps to a grant with expires <= now.
C21_ExpiredGrantsSwept ==
    [][req'.op = "sweeper"
       => unlimitedAccessTracker' =
            [k \in {key \in DOMAIN unlimitedAccessTracker :
                        grants[unlimitedAccessTracker[key]].expires > now}
                |-> unlimitedAccessTracker[k]]]_vars

(* ---------------- C22 ---------------- *)

\* the request was answered as a free download
FreeServed(r, answer) ==
    IsRegister(r) /\ answer.status = 200 /\ HasField(answer, "remainingDownloads")

\* the downloadsUsed of the records (userId, machineId, ip) names in the
\* Maps given
CountersIn(userId, machineId, ip, users, addresses) ==
    {users[k].downloadsUsed :
        k \in ({userKeyRegular(userId, currentYear)}
               \cup (IF machineId # undefined
                     THEN {machineKeyRegular(machineId, currentYear)} ELSE {}))
              \cap DOMAIN users}
    \cup {addresses[k].downloadsUsed : k \in {ipKeyOf(ip, currentYear)} \cap DOMAIN addresses}

\* C22: a successful free register-download returns remainingDownloads =
\* 3 - downloadsUsed, downloadsUsed being the reconciled usage after the
\* call, so remainingDownloads is in 0..2; its message is non-null exactly
\* when remainingDownloads is 0 or 1.
C22_RemainingAndWarning ==
    [][FreeServed(req', resp')
       => /\ resp'.downloadsUsed =
                Greatest(CountersIn(req'.userId, req'.machineId, req'.ip,
                                    downloadTracker', ipTracker'))
          /\ resp'.remainingDownloads = FreeLimit - resp'.downloadsUsed
          /\ resp'.remainingDownloads \in 0..(FreeLimit - 1)
          /\ (resp'.message # "null") <=> (resp'.remainingDownloads \in {0, 1})]_vars

\* the first download of an account, warned that one remains
C22_Witness ==
    /\ FreeServed(req, resp) /\ resp.remainingDownloads = 1 /\ resp.message # "null"
    /\ Len(downloadTracker[userKeyRegular(req.userId, currentYear)].downloadHistory) = 1

(* ---------------- C23 ---------------- *)

\* the downloadsUsed of the account's record of the current year, 0 without one
AccountUsage(userId) ==
    IF userKeyRegular(userId, currentYear) \in DOMAIN downloadTracker
    THEN downloadTracker[userKeyRegular(userId, currentYear)].downloadsUsed
    ELSE 0

\* no other account has a quota record of the current year
Sole(userId) ==
    \A other \in UsageDomain.callers \ {userId} :
        userKeyRegular(other, currentYear) \notin DOMAIN downloadTracker

\* a step between two runs of the sweeper within one calendar year
Undisturbed(r) == r.op \notin {"sweeper", "advance"}

\* a check of the account, answered from the quota records
Counted(r, answer, userId) ==
    IsCheck(r) /\ r.userId = userId /\ HasField(answer, "downloadsUsed")

C24_UsageIsHistoryLength ==
    \A k \in DOMAIN downloadTracker :
        HasField(downloadTracker[k], "downloadHistory")
        => downloadTracker[k].downloadsUsed = Len(downloadTracker[k].downloadHistory)

(* ---------------- C25 ---------------- *)

\* C25: a successful free register-download writes one value, the reconciled
\* usage before the call plus one, into the account record, the address
\* record and, when a device id is supplied, the device record, creating the
\* missing ones; that value is the downloadsUsed it returns.
C25_OneValueEverywhere ==
    [][FreeServed(req', resp') =>
          /\ resp'.downloadsUsed =
                Greatest(NamedCounters(req'.userId, req'.machineId, req'.ip)) + 1
          /\ AllAt(req', resp'.downloadsUsed, downloadTracker', ipTracker')]_vars

\* a device's third download, made by an account on its first download from
\* an address it shares: every record named stands at 3
C25_Witness ==
    /\ FreeServed(req, resp) /\ req.machineId # undefined
    /\ resp.downloadsUsed = FreeLimit
    /\ AllAt(req, FreeLimit, downloadTracker, ipTracker)
    /\ Len(downloadTracker[userKeyRegular(req.userId, currentYear)].downloadHistory) = 1

(* ---------------- C26 ---------------- *)

\* C26: verify-unlimited answers hasUnlimited = true exactly when the grant
\* it selects exists and has expires > now; at expires = now it answers false.
C26_VerifyStrictlyBeforeExpiry ==
    (IsVerify(req) /\ req.userId # undefined)
    => (resp.hasUnlimited <=> (Selected(req) # 0 /\ grants[Selected(req)].expires > now))

(* ---------------- C27 ---------------- *)

\* the keys of the records last written in another calendar year than the
\* current one
Bygone(map) ==
    {k \in DOMAIN map : map[k].lastCheck \div DaysPerYear # currentYear}

\* the usage on the records written in the current calendar year
ThisYear(map) == {map[k].downloadsUsed : k \in DOMAIN map \ Bygone(map)}

\* C27: the quota keys carry the calendar year.  A check-download-allowance
\* or register-download leaves every record of another year as it is and
\* answers from the records of the current year only; when all records on
\* file are of another year, whatever their usage, the check reports
\* downloadsUsed 0 with 3 remaining and the register-download succeeds as the
\* first of the year.
C27_QuotaPerYear ==
    [][((IsCheck(req') \/ IsRegister(req')) /\ req'.userId # undefined)
       => /\ \A k \in Bygone(downloadTracker) :
                k \in DOMAIN downloadTracker' /\ downloadTracker'[k] = downloadTracker[k]
          /\ \A k \in Bygone(ipTracker) :
                k \in DOMAIN ipTracker' /\ ipTracker'[k] = ipTracker[k]
          /\ Counted(req', resp', req'.userId)
             => resp'.downloadsUsed
                  <= Greatest(ThisYear(downloadTracker) \cup ThisYear(ipTracker))
          /\ (NoGrantFor(req') /\ ThisYear(downloadTracker) \cup ThisYear(ipTracker) = {})
             => /\ resp'.status = 200
                /\ resp'.downloadsUsed = (IF IsRegister(req') THEN 1 ELSE 0)
                /\ resp'.remainingDownloads = FreeLimit - resp'.downloadsUsed]_vars

\* the third free download of year 1 succeeds while the account's record of
\* year 0, used up, is still on file
C27_Witness ==
    /\ currentYear = 1 /\ FreeServed(req, resp) /\ resp.downloadsUsed = FreeLimit
    /\ Has(downloadTracker, userKeyRegular(req.userId, 0))
    /\ downloadTracker[userKeyRegular(req.userId, 0)].downloadsUsed = FreeLimit
    /\ downloadTracker[userKeyRegular(req.userId, 1)].downloadsUsed = FreeLimit

(* ---------------- C28 ---------------- *)

\* C28: once activate-unlimited has answered 'Unlimited downloads activated
\* for 1 year' for an account, check-download-allowance and register-download
\* of that account answer with unlimited access at every time before the
\* promised expiry, whatever downloads and sweeper runs came in between.
C28_UnlimitedForAYear ==
    [][((IsCheck(req') \/ IsRegister(req'))
        /\ \E g \in 1..Len(grants) :
              /\ grants[g].userId = req'.userId
              /\ grants[g].activated <= now /\ now < grants[g].expires)
       => /\ resp'.status = 200
          /\ HasField(resp', "unlimitedAccess") /\ resp'.unlimitedAccess
          /\ resp'.remainingDownloads = "unlimited"]_vars

(* ---------------- C29 ---------------- *)

\* C29: concurrent track-download and bulk-download requests of an unlimited
\* user lose no increment: once they have all been answered, the downloadsCount
\* of the user's UnlimitedAccess document is the number of downloads recorded.
C29_NoLostUpdate ==
    (\A h \in Slots : handlers[h].pc = "idle")
    => \A u \in DOMAIN UnlimitedAccess :
          UnlimitedAccess[u].downloadsCount =
             Total(Download, {d \in DOMAIN Download : d.userId = u /\ d.unlimitedAccess})

(* ---------------- C30 ---------------- *)

\* C30: a free user's track-download that is answered 429 adds no Download
\* document, so no user has more than 5 watermarked Download documents of one
\* day.
C30_AtMostFivePerDay ==
    \A d \in DOMAIN Download : ~d.unlimitedAccess => Download[d] <= dailyLimit

(* ---------------- C31 ---------------- *)

\* the keys a grant is stored under by the activation that created it
OwnKeys(g) ==
    {userKey(grants[g].userId), activationKey(grants[g].activationCode)}
    \cup (IF grants[g].machineId # "unknown" THEN {machineKey(grants[g].machineId)} ELSE {})
    \cup (IF grants[g].paymentId # undefined THEN {paymentKey(grants[g].paymentId)} ELSE {})

\* C31: a download request (register-download or download-unlimited) never
\* makes a grant reachable through another account id or device id than those
\* of its activation: every key-to-grant entry after the request was there
\* before it or is one of the grant's own keys.
C31_NoForeignKey ==
    [][(IsRegister(req') \/ IsDownload(req'))
       => \A k \in DOMAIN unlimitedAccessTracker' :
             \/ k \in DOMAIN unlimitedAccessTracker
                /\ unlimitedAccessTracker'[k] = unlimitedAccessTracker[k]
             \/ k \in OwnKeys(unlimitedAccessTracker'[k])]_vars

(* ---------------- C32 ---------------- *)

\* C32: the account key and the device key of a register-download differ in
\* downloadTracker, and a register-download answered 500 has modified no
\* record.
C32_KeysApart ==
    [][(IsRegister(req') /\ req'.userId # undefined)
       => /\ req'.machineId # undefined
             => userKeyRegular(req'.userId, currentYear)
                  # machineKeyRegular(req'.machineId, currentYear)
          /\ resp'.status = 500
             => downloadTracker' = downloadTracker /\ ipTracker' = ipTracker]_vars

(* ---------------- C33 ---------------- *)

\* what verify-unlimited answers in the current state when called with the
\* account id alone
VerifiedAlone(userId) == VerifyResponse(userId, undefined, undefined).hasUnlimited

\* C33: the read endpoints report an entitlement only if verify-unlimited
\* does: user-downloads answers unlimitedAccess = true, and unlimited-info
\* hasUnlimited = true, for an account only when verify-unlimited called with
\* that account id alone answers hasUnlimited = true.
C33_ReadsAgreeWithVerify ==
    /\ (req.op = "user-downloads" /\ resp.unlimitedAccess) => VerifiedAlone(req.userId)
    /\ (req.op = "unlimited-info" /\ resp.hasUnlimited) => VerifiedAlone(req.userId)

(* ---------------- C34 ---------------- *)

\* C34: check and register agree: a register-download served right after a
\* check-download-allowance of the same identity (account id, device id,
\* address) succeeds exactly when the check answered canDownload = true.
C34_CheckPredictsRegister ==
    [][(/\ IsCheck(req) /\ req.userId # undefined
        /\ IsRegister(req')
        /\ req'.userId = req.userId /\ req'.machineId = req.machineId /\ req'.ip = req.ip)
       => ((resp'.status = 200 /\ resp'.success) <=> resp.canDownload)]_vars

(* ---------------- C35 ---------------- *)

\* a step keeps the records of a quota Map, never lowers their downloadsUsed
\* and changes it only with a successful free register-download; records go
\* only in a run of the sweeper
Monotonic(before, after, request, answer) ==
    \A k \in DOMAIN before :
        IF k \in DOMAIN after
        THEN /\ after[k].downloadsUsed >= before[k].downloadsUsed
             /\ after[k].downloadsUsed # before[k].downloadsUsed
                => FreeServed(request, answer)
        ELSE request.op \in {"sweeper", "advance"}

\* C35: the quota counters are monotonic: no request lowers the downloadsUsed
\* of a record of downloadTracker or ipTracker, the value changes only by a
\* successful free register-download, and a record disappears only through
\* a sweeper run.
C35_CountersMonotonic ==
    [][/\ Monotonic(downloadTracker, downloadTracker', req', resp')
       /\ Monotonic(ipTracker, ipTracker', req', resp')]_vars

(* ---------------- C36 ---------------- *)

\* the key maps to a grant with expires > now
Valid(key) ==
    Has(unlimitedAccessTracker, key) /\ grants[unlimitedAccessTracker[key]].expires > now

\* C36: a valid grant is never hidden by a stale one: when the account key
\* maps to a grant with expires > now, verify-unlimited and download-unlimited
\* of the account succeed whatever activation code they carry; when the device
\* key supplied maps to a grant with expires > now, check-download-allowance
\* and register-download answer as unlimited, whatever the account key maps to.
C36_ValidGrantWins ==
    [][/\ ((IsVerify(req') \/ IsDownload(req')) /\ req'.userId # undefined
           /\ Valid(userKey(req'.userId)))
          => /\ resp'.status = 200
             /\ IsVerify(req') => resp'.hasUnlimited
             /\ IsDownload(req') => resp'.success
       /\ ((IsCheck(req') \/ IsRegister(req')) /\ req'.userId # undefined
           /\ req'.machineId # undefined /\ Valid(machineKey(req'.machineId)))
          => /\ resp'.status = 200
             /\ HasField(resp', "unlimitedAccess") /\ resp'.unlimitedAccess]_vars

\* C37: on the first server, once activate-unlimited has been answered for an
\* account, every register-download of that account that carries a user
\* fingerprint is answered 200 with success and remainingDownloads
\* "unlimited", also when the account had no record before the activation; it
\* is never answered with the 500 error.
C37_PaidAccountAlwaysUnlimited ==
    [][(held /\ req'.op = "register-download" /\ req'.userId = "u1"
        /\ req'.userFingerprint # undefined)
       => /\ resp'.status = 200
          /\ resp'.success
          /\ HasField(resp', "unlimitedAccess")
          /\ resp'.remainingDownloads = "unlimited"]_vars

Next == NextOver(QuotaDomain)

Spec == Init /\ [][Next]_vars

NextEntitled == NextOver(EntitledDomain)

SpecEntitled == Init /\ [][NextEntitled]_vars

NextGrants == NextOver(GrantDomain)

SpecGrants == Init /\ [][NextGrants]_vars

NextLookup == NextOver(LookupDomain)

SpecLookup == Init /\ [][NextLookup]_vars

NextMissing == NextOver(MissingDomain)

SpecMissing == Init /\ [][NextMissing]_vars

NextUsage == NextOver(UsageDomain)

SpecUsage == Init /\ [][NextUsage]_vars

NextEpoch == NextOver(EpochDomain)

SpecEpoch == Init /\ [][NextEpoch]_vars

NextExpiry == NextOver(ExpiryDomain)

SpecExpiry == Init /\ [][NextExpiry]_vars

NextSweep == NextOver(SweepDomain)

SpecSweep == Init /\ [][NextSweep]_vars

NextShadow == NextOver(ShadowDomain)

SpecShadow == Init /\ [][NextShadow]_vars

\* a grant at its expiry, with the two read endpoints
NextReads ==
    \/ NextOver(ExpiryDomain)
    \/ \E userId \in ExpiryDomain.holders : UserDownloads(userId)
    \/ \E userId \in ExpiryDomain.holders : UnlimitedInfo(userId)

SpecReads == Init /\ [][NextReads]_vars

NextConcurrent == NextMongo(ConcurrentDomain)

SpecConcurrent == Init /\ [][NextConcurrent]_vars

NextLimits == NextMongo(LimitDomain)

SpecLimits == Init /\ [][NextLimits]_vars
====
